---- MODULE Spec2Model ----
(***************************************************************************)
(* A model of the document-qa backend: the JSON metadata store             *)
(* (backend/app/db/database.py), the chat and document request handlers    *)
(* (backend/app/api/chats.py, backend/app/api/documents.py), the           *)
(* background ingestion task, the per-user vector store                    *)
(* (backend/app/rag_engine/document_store.py) and the queries with their   *)
(* confidence (backend/app/api/queries.py,                                 *)
(* backend/app/rag_engine/query_engine.py).                                *)
(*                                                                         *)
(* The stores are files and a Chroma directory shared by every worker      *)
(* process, and no handler takes a lock, so a handler is modelled as the   *)
(* sequence of its file-system and vector-store calls; the specifications  *)
(* differ only in which interleavings of those steps they admit.           *)
(***************************************************************************)
EXTENDS Integers, FiniteSets, Sequences, TLC

(***************************************************************************)
(* Bounds of the model.                                                    *)
(***************************************************************************)
MaxChatIds == 6      \* how many chat ids uuid4() hands out in one run
MaxTime == 1         \* datetime.utcnow() takes the values 0..MaxTime
MaxChunks == 2       \* the most chunks process_file returns for a document
MaxResults == 1      \* the largest max_results a query request carries
MaxDistance == 1     \* the collection reports the distances 0..MaxDistance
Unit == 2            \* a distance g stands for the real number g / Unit
MaxChatFiles == 1    \* how many chats are created in a run on the chat files
MaxMessages == 1     \* the most messages a chat comes to hold
MaxLen == 4          \* the longest list of distances a confidence is asked of
MaxMessageList == 2  \* the longest list of messages a chat or a request holds
MaxRows == 120        \* the most data rows a CSV file holds

(***************************************************************************)
(* Program constants.                                                      *)
(***************************************************************************)
ApiChatLimit == 5    \* chats.py: "if count >= 5"
DbChatLimit == 5     \* database.py: "if len(existing_chats) >= 5"
DefaultMaxResults == 5   \* queries.py: "query_request.max_results or 5"

Users == {"alice", "bob"}      \* the user directories and vector collections
Clients == {"alice"}           \* the users whose requests the runs explore
Procs == {"p1", "p2"}          \* request handlers that may be in flight together
DocIds == {"d1"}               \* the values uuid4() takes for uploaded documents
TagSets == {{}, {"t"}}         \* the tag lists a request may carry

VARIABLES
    chats,        \* chats[u]: the records of the files db/chats/<u>/*.json
    nextChatId,   \* the next value of uuid.uuid4() for a chat
    clock,        \* the last value datetime.utcnow() returned
    creq,         \* creq[p]: the chat request handler p and its locals
    resp,         \* the response of the chat request that completed last
    docs,         \* docs[u]: the records of the files db/documents/<u>/*.json
    vectors,      \* vectors[u]: the chunks of the Chroma collection user_<u>
    task,         \* task[d]: the background task process_document of d
    dreq,         \* dreq[p]: the document request handler p and its locals
    dresp,        \* the response of the document request that completed last
    deleted,      \* the documents whose DELETE request was answered 200
    qresp,        \* the response of the query request that completed last
    distances,    \* the distances of a search result, in units of 1/Unit
    confidence,   \* the confidence QueryEngine.query computed from them
    users,        \* the list of the file db/users.json
    uresp         \* the response of the registration that completed last

chatVars == <<chats, nextChatId, clock, creq, resp>>
docVars == <<docs, vectors, task, dreq, dresp, deleted>>
queryVars == <<qresp, distances, confidence>>
userVars == <<users, uresp>>
vars == <<chats, nextChatId, clock, creq, resp,
          docs, vectors, task, dreq, dresp, deleted,
          qresp, distances, confidence, users, uresp>>

\* The content of db/users.json while the requests of the users are served.
RegisteredUsers ==
    <<[username |-> "alice", email |-> {"alice@x"}],
      [username |-> "bob", email |-> {"bob@x"}]>>

(***************************************************************************)
(* Metadata store: chats.                                                  *)
(***************************************************************************)
ChatIdsOf(S) == {c.chat_id : c \in S}

\* datetime.utcnow(): never before the last value read, possibly equal to it.
UtcNow == {t \in {clock, clock + 1} : t <= MaxTime}

\* JSONDatabase.get_chats_for_user: every record of the user's directory.
get_chats_for_user(u) == chats[u]

\* JSONDatabase.get_chat_count
get_chat_count(u) == Cardinality(get_chats_for_user(u))

\* JSONDatabase.get_chat: the record, or none.
get_chat(u, id) == {c \in chats[u] : c.chat_id = id}

\* A create_chat that evicts only above the limit.
NeedsEviction_AboveLimit(existing) == Cardinality(existing) > DbChatLimit

\* create_chat: "if len(existing_chats) >= 5"
NeedsEviction(existing) == Cardinality(existing) >= DbChatLimit

\* A create_chat that takes max(existing_chats, key=created_at).
OldestChats_Newest(existing) ==
    {c \in existing : \A d \in existing : c.created_at >= d.created_at}

\* create_chat: min(existing_chats, key=created_at). Among equal created_at the
\* first of the listing wins, and os.listdir orders the listing arbitrarily.
OldestChats(existing) ==
    {c \in existing : \A d \in existing : c.created_at <= d.created_at}

\* JSONDatabase.delete_chat: os.remove of the file when it exists.
delete_chat(S, id) == {c \in S : c.chat_id # id}

\* The file <chat_id>.json written with open(path, 'w'): replaces the record.
write_chat(S, rec) == {c \in S : c.chat_id # rec.chat_id} \cup {rec}

\* A handler's locals; chat ids start at 1, and oldest holds the id of the chat
\* the handler has evicted, if any.
IdleReq == [pc |-> "idle", user |-> "alice", chat_id |-> 0,
            existing |-> {}, oldest |-> {}]

\* What the handler answers: the status code, the id of the chat written and
\* the id of the chat create_chat evicted for it, each a set of at most one id.
Response(op, code, written, evicted) ==
    [op |-> op, code |-> code, chat_id |-> written, evicted |-> evicted]

ChatInit ==
    /\ chats = [u \in Users |->
                   IF u \in Clients THEN {}
                   ELSE {[chat_id |-> 0, created_at |-> 0]}]
    /\ nextChatId = 1
    /\ clock = 0
    /\ creq = [p \in Procs |-> IdleReq]
    /\ resp = Response("none", 0, {}, {})

\* The create_chat handlers that have passed the count check.
InFlightCreates ==
    Cardinality({p \in Procs : creq[p].pc \in {"db_create", "db_evict", "db_write"}})

\* chats.py create_chat, lines 50-64: the count check, then the chat data.
ApiCreateChatCheck(p, u) ==
    /\ creq[p].pc = "idle"
    /\ IF get_chat_count(u) >= ApiChatLimit
       THEN /\ resp' = Response("create_chat", 400, {}, {})
            /\ UNCHANGED creq
       ELSE /\ nextChatId + InFlightCreates <= MaxChatIds
            /\ creq' = [creq EXCEPT ![p] =
                           [IdleReq EXCEPT !.pc = "db_create", !.user = u]]
            /\ UNCHANGED resp
    /\ UNCHANGED <<chats, nextChatId, clock>>
    /\ UNCHANGED docVars
    /\ UNCHANGED userVars
    /\ UNCHANGED queryVars

\* database.py create_chat, lines 252-253: list the user's chats.
DbCreateList(p) ==
    /\ creq[p].pc = "db_create"
    /\ LET existing == get_chats_for_user(creq[p].user) IN
       creq' = [creq EXCEPT ![p].existing = existing,
                            ![p].pc = IF NeedsEviction(existing)
                                      THEN "db_evict" ELSE "db_write"]
    /\ UNCHANGED <<chats, nextChatId, clock, resp>>
    /\ UNCHANGED docVars
    /\ UNCHANGED userVars
    /\ UNCHANGED queryVars

\* database.py create_chat, lines 255-256: delete the oldest chat. The runs are
\* those in which os.remove of the chat file succeeds.
DbCreateEvict(p) ==
    /\ creq[p].pc = "db_evict"
    /\ \E o \in OldestChats(creq[p].existing) :
          /\ chats' = [chats EXCEPT ![creq[p].user] = delete_chat(@, o.chat_id)]
          /\ creq' = [creq EXCEPT ![p].oldest = {o.chat_id}, ![p].pc = "db_write"]
    /\ UNCHANGED <<nextChatId, clock, resp>>
    /\ UNCHANGED docVars
    /\ UNCHANGED userVars
    /\ UNCHANGED queryVars

\* database.py create_chat, lines 263-277: stamp and write the new chat. The
\* chat id is the uuid4() of chats.py line 60: a value no chat has had, named
\* here when the file is written.
DbCreateWrite(p) ==
    /\ creq[p].pc = "db_write"
    /\ \E t \in UtcNow :
          /\ clock' = t
          /\ chats' = [chats EXCEPT ![creq[p].user] =
                          write_chat(@, [chat_id |-> nextChatId, created_at |-> t])]
    /\ resp' = Response("create_chat", 200, {nextChatId}, creq[p].oldest)
    /\ creq' = [creq EXCEPT ![p] = IdleReq]
    /\ nextChatId' = nextChatId + 1
    /\ UNCHANGED docVars
    /\ UNCHANGED userVars
    /\ UNCHANGED queryVars

\* chats.py delete_chat: 404 when db.delete_chat finds no file.
ApiDeleteChat(p, u, id) ==
    /\ creq[p].pc = "idle"
    /\ IF get_chat(u, id) # {}
       THEN /\ chats' = [chats EXCEPT ![u] = delete_chat(@, id)]
            /\ resp' = Response("delete_chat", 200, {}, {})
       ELSE /\ resp' = Response("delete_chat", 404, {}, {})
            /\ UNCHANGED chats
    /\ UNCHANGED <<nextChatId, clock, creq>>
    /\ UNCHANGED docVars
    /\ UNCHANGED userVars
    /\ UNCHANGED queryVars

\* chats.py get_chat
ApiGetChat(p, u, id) ==
    /\ creq[p].pc = "idle"
    /\ resp' = Response("get_chat", IF get_chat(u, id) # {} THEN 200 ELSE 404,
                        {}, {})
    /\ UNCHANGED <<chats, nextChatId, clock, creq>>
    /\ UNCHANGED docVars
    /\ UNCHANGED userVars
    /\ UNCHANGED queryVars

\* chats.py list_chats
ApiListChats(p, u) ==
    /\ creq[p].pc = "idle"
    /\ resp' = Response("list_chats", 200, {}, {})
    /\ UNCHANGED <<chats, nextChatId, clock, creq>>
    /\ UNCHANGED docVars
    /\ UNCHANGED userVars
    /\ UNCHANGED queryVars

\* chats.py update_chat / add_message / delete_message: the handler's get_chat.
ApiUpdateChatGet(p, u, id) ==
    /\ creq[p].pc = "idle"
    /\ IF get_chat(u, id) # {}
       THEN /\ creq' = [creq EXCEPT ![p] =
                           [IdleReq EXCEPT !.pc = "db_update", !.user = u,
                                           !.chat_id = id]]
            /\ UNCHANGED resp
       ELSE /\ resp' = Response("update_chat", 404, {}, {})
            /\ UNCHANGED creq
    /\ UNCHANGED <<chats, nextChatId, clock>>
    /\ UNCHANGED docVars
    /\ UNCHANGED userVars
    /\ UNCHANGED queryVars

\* database.py update_chat: read the chat again, apply the updates, write the
\* file back; None when the chat is not there, on which the response model
\* fails and the application answers 500.
DbUpdateChat(p) ==
    /\ creq[p].pc = "db_update"
    /\ LET found == get_chat(creq[p].user, creq[p].chat_id) IN
       IF found # {}
       THEN /\ \E t \in UtcNow, c \in found :
                 /\ clock' = t
                 /\ chats' = [chats EXCEPT ![creq[p].user] = write_chat(@, c)]
            /\ resp' = Response("update_chat", 200, {}, {})
       ELSE /\ resp' = Response("update_chat", 500, {}, {})
            /\ UNCHANGED <<chats, clock>>
    /\ creq' = [creq EXCEPT ![p] = IdleReq]
    /\ UNCHANGED nextChatId
    /\ UNCHANGED docVars
    /\ UNCHANGED userVars
    /\ UNCHANGED queryVars

KnownChatIds == 1..(nextChatId - 1)

\* A handler that is inside a call of the metadata store.
InStoreCall(p) == creq[p].pc \in {"db_evict", "db_write"}

\* p may take a step when no other handler is inside a call of the store.
StoreTurn(p) == \A q \in Procs \ {p} : ~InStoreCall(q)

\* Every call of the metadata store runs to completion; the handlers interleave
\* between their calls.
NextStore ==
    \/ \E p \in Procs, u \in Clients : StoreTurn(p) /\ ApiCreateChatCheck(p, u)
    \/ \E p \in Procs : StoreTurn(p) /\ DbCreateList(p)
    \/ \E p \in Procs : StoreTurn(p) /\ DbCreateEvict(p)
    \/ \E p \in Procs : StoreTurn(p) /\ DbCreateWrite(p)
    \/ \E p \in Procs, u \in Clients, id \in KnownChatIds :
          StoreTurn(p) /\ ApiDeleteChat(p, u, id)
    \/ \E p \in Procs, u \in Clients, id \in KnownChatIds :
          StoreTurn(p) /\ ApiGetChat(p, u, id)
    \/ \E p \in Procs, u \in Clients : StoreTurn(p) /\ ApiListChats(p, u)
    \/ \E p \in Procs, u \in Clients, id \in KnownChatIds :
          StoreTurn(p) /\ ApiUpdateChatGet(p, u, id)
    \/ \E p \in Procs : StoreTurn(p) /\ DbUpdateChat(p)

\* Every step of every create_chat handler interleaves with the others'.
NextCreate ==
    \/ \E p \in Procs, u \in Clients : ApiCreateChatCheck(p, u)
    \/ \E p \in Procs : DbCreateList(p)
    \/ \E p \in Procs : DbCreateEvict(p)
    \/ \E p \in Procs : DbCreateWrite(p)

(***************************************************************************)
(* Metadata store: documents; vector store; ingestion.                     *)
(***************************************************************************)
\* No record: what a handler or a task holds before get_document has returned.
NoDoc == [doc_id |-> "none", status |-> "none", tags |-> {}, error |-> "",
          num_pages |-> 0]
NoTask == [pc |-> "none", user |-> "alice", n |-> 0, i |-> 0, exc |-> "",
           doc |-> NoDoc]
IdleDocReq == [pc |-> "idle", user |-> "alice", doc_id |-> "none", tags |-> {},
               doc |-> NoDoc]
DocResponse(op, code, d) == [op |-> op, code |-> code, doc_id |-> d]

\* JSONDatabase.get_document: the record, or none.
get_document(u, d) == {r \in docs[u] : r.doc_id = d}

\* JSONDatabase.save_document: open(path, 'w') and json.dump, which creates the
\* file when it is not there.
save_document(S, rec) == {r \in S : r.doc_id # rec.doc_id} \cup {rec}

\* JSONDatabase.delete_document: os.remove of the file.
remove_document(S, d) == {r \in S : r.doc_id # d}

\* update_document, lines 158-159: "for key, value in updates.items():
\* doc[key] = value". An absent error is "", an absent num_pages is 0.
set_fields(doc, updates) ==
    [doc_id |-> doc.doc_id,
     status |-> IF "status" \in DOMAIN updates THEN updates.status ELSE doc.status,
     tags |-> IF "tags" \in DOMAIN updates THEN updates.tags ELSE doc.tags,
     error |-> IF "error" \in DOMAIN updates THEN updates.error ELSE doc.error,
     num_pages |-> IF "num_pages" \in DOMAIN updates THEN updates.num_pages
                   ELSE doc.num_pages]

\* JSONDatabase.update_document, lines 157-162, once get_document has returned
\* doc: set the fields and save_document the whole record.
update_document(S, doc, updates) == save_document(S, set_fields(doc, updates))

\* DocumentStore.add_chunk: the chunk <doc_id>_chunk_<i>, its metadata doc_id.
add_chunk(C, d, i) == C \cup {[doc_id |-> d, chunk_index |-> i]}

\* DocumentStore.delete_document_chunks: collection.delete(where doc_id = d).
delete_document_chunks(C, d) == {c \in C : c.doc_id # d}

\* DocumentStore._get_user_collection: the name of the collection of a user.
CollectionName_Shared(u) == "user_"
CollectionName(u) == "user_" \o u

\* The content of the collection get_or_create_collection returns for u:
\* what was added under every user whose collection has that name.
get_user_collection(u) ==
    UNION {vectors[o] : o \in {o \in Users : CollectionName(o) = CollectionName(u)}}

\* DocumentStore.search_chunks: the chunks the where-filter lets through, of
\* which collection.query returns the nearest max_results. "if filter_doc_ids"
\* takes an empty list for no filter.
search_candidates(u, filter_doc_ids) ==
    IF filter_doc_ids = {} THEN get_user_collection(u)
    ELSE {c \in get_user_collection(u) : c.doc_id \in filter_doc_ids}

\* The messages of the exceptions process_document catches: each raise of
\* document_processor, embedding_manager and document_store prefixes the cause.
ErrorMessage(cause) ==
    CASE cause = "extract" -> "Error processing file"
      [] cause = "embed" -> "Error generating embedding"
      [] cause = "add" -> "Error adding chunk to vector store"

\* A success update that repeats the status of the first update.
StatusProcessed_Unset == [status |-> "processing"]

\* An error update that leaves the message out.
StatusError_NoMessage(msg) == [status |-> "error"]

\* The updates process_document passes to db.update_document, by stage.
StatusProcessing == [status |-> "processing"]
NumPages == [num_pages |-> 1]
StatusProcessed == [status |-> "processed"]
StatusError(msg) == [status |-> "error", error |-> msg]

TaskUpdates(t) ==
    CASE t.pc = "proc" -> StatusProcessing
      [] t.pc = "pages" -> NumPages
      [] t.pc = "fin" -> StatusProcessed
      [] t.pc = "err" -> StatusError(ErrorMessage(t.exc))

\* The update documents.py update_document passes: updates.dict(exclude_unset),
\* of a model whose one field is tags.
TagUpdate(tags) == [tags |-> tags]

\* for i, chunk in enumerate(document_chunks): the next chunk, or the end.
LoopPc(t) == IF t.i < t.n THEN "embed" ELSE "fin"

\* Where process_document goes on after a call of db.update_document.
AfterUpdate(t) ==
    CASE t.pc = "proc" -> "extract"
      [] t.pc = "pages" -> LoopPc(t)
      [] t.pc = "fin" -> "done"
      [] t.pc = "err" -> "done"

\* except Exception as e: leave the try body for the handler.
Raise(t, cause) == [t EXCEPT !.pc = "err", !.exc = cause]

DocInit ==
    /\ docs = [u \in Users |-> {}]
    /\ vectors = [u \in Users |-> {}]
    /\ task = [d \in DocIds |-> NoTask]
    /\ dreq = [p \in Procs |-> IdleDocReq]
    /\ dresp = DocResponse("none", 0, "none")
    /\ deleted = {}
    /\ users = RegisteredUsers
    /\ uresp = [code |-> 0, username |-> "none", email |-> {}]

\* documents.py upload_document: the size and type checks, the record with
\* status "processing", the background task.
UploadDocument(p, u, d, tags, accepted) ==
    /\ dreq[p].pc = "idle"
    /\ task[d].pc = "none"
    /\ IF accepted
       THEN /\ docs' = [docs EXCEPT ![u] =
                          save_document(@, [doc_id |-> d, status |-> "processing",
                                            tags |-> tags, error |-> "",
                                            num_pages |-> 0])]
            /\ task' = [task EXCEPT ![d] = [NoTask EXCEPT !.pc = "start", !.user = u]]
            /\ dresp' = DocResponse("upload", 200, d)
       ELSE /\ dresp' = DocResponse("upload", 400, "none")
            /\ UNCHANGED <<docs, task>>
    /\ UNCHANGED <<vectors, dreq, deleted>>
    /\ UNCHANGED chatVars
    /\ UNCHANGED userVars
    /\ UNCHANGED queryVars

\* process_document, lines 49-51: return when the record is not there.
TaskStart(d) ==
    /\ task[d].pc = "start"
    /\ task' = [task EXCEPT ![d].pc =
                   IF get_document(task[d].user, d) = {} THEN "done" ELSE "proc"]
    /\ UNCHANGED <<docs, vectors, dreq, dresp, deleted>>
    /\ UNCHANGED chatVars
    /\ UNCHANGED userVars
    /\ UNCHANGED queryVars

\* process_document, lines 54, 72, 93 and 97, db.update_document: its
\* get_document, lines 152-155, on None it returns.
TaskUpdateRead(d) ==
    /\ task[d].pc \in {"proc", "pages", "fin", "err"}
    /\ task[d].doc = NoDoc
    /\ LET found == get_document(task[d].user, d) IN
       IF found = {}
       THEN task' = [task EXCEPT ![d].pc = AfterUpdate(task[d])]
       ELSE \E r \in found : task' = [task EXCEPT ![d].doc = r]
    /\ UNCHANGED <<docs, vectors, dreq, dresp, deleted>>
    /\ UNCHANGED chatVars
    /\ UNCHANGED userVars
    /\ UNCHANGED queryVars

\* db.update_document, lines 157-162, for process_document: save the record
\* read, with the fields set.
TaskUpdateWrite(d) ==
    /\ task[d].pc \in {"proc", "pages", "fin", "err"}
    /\ task[d].doc # NoDoc
    /\ docs' = [docs EXCEPT ![task[d].user] =
                   update_document(@, task[d].doc, TaskUpdates(task[d]))]
    /\ task' = [task EXCEPT ![d].doc = NoDoc, ![d].pc = AfterUpdate(task[d])]
    /\ UNCHANGED <<vectors, dreq, dresp, deleted>>
    /\ UNCHANGED chatVars
    /\ UNCHANGED userVars
    /\ UNCHANGED queryVars

\* process_document, lines 57-72: process_file returns n chunks or raises; a
\* PDF with pages has its page count written.
TaskExtract(d, ok, n, pages) ==
    /\ task[d].pc = "extract"
    /\ task' = [task EXCEPT ![d] =
                   IF ~ok THEN Raise(@, "extract")
                   ELSE [@ EXCEPT !.n = n,
                                  !.pc = IF pages THEN "pages"
                                         ELSE LoopPc([task[d] EXCEPT !.n = n])]]
    /\ UNCHANGED <<docs, vectors, dreq, dresp, deleted>>
    /\ UNCHANGED chatVars
    /\ UNCHANGED userVars
    /\ UNCHANGED queryVars

\* process_document, line 76: embedding_manager.get_embedding(chunk.text).
TaskEmbed(d, ok) ==
    /\ task[d].pc = "embed"
    /\ task' = [task EXCEPT ![d] =
                   IF ok THEN [@ EXCEPT !.pc = "add"] ELSE Raise(@, "embed")]
    /\ UNCHANGED <<docs, vectors, dreq, dresp, deleted>>
    /\ UNCHANGED chatVars
    /\ UNCHANGED userVars
    /\ UNCHANGED queryVars

\* process_document, lines 79-90: document_store.add_chunk of chunk i.
TaskAddChunk(d, ok) ==
    /\ task[d].pc = "add"
    /\ IF ok
       THEN /\ vectors' = [vectors EXCEPT ![task[d].user] = add_chunk(@, d, task[d].i)]
            /\ task' = [task EXCEPT ![d].i = @ + 1,
                                    ![d].pc = LoopPc([task[d] EXCEPT !.i = @ + 1])]
       ELSE /\ task' = [task EXCEPT ![d] = Raise(@, "add")]
            /\ UNCHANGED vectors
    /\ UNCHANGED <<docs, dreq, dresp, deleted>>
    /\ UNCHANGED chatVars
    /\ UNCHANGED userVars
    /\ UNCHANGED queryVars

\* One step of the background task of d.
IngestStep(d) ==
    \/ TaskStart(d)
    \/ TaskUpdateRead(d)
    \/ TaskUpdateWrite(d)
    \/ \E ok \in BOOLEAN, n \in 0..MaxChunks, pages \in BOOLEAN :
          TaskExtract(d, ok, n, pages)
    \/ \E ok \in BOOLEAN : TaskEmbed(d, ok)
    \/ \E ok \in BOOLEAN : TaskAddChunk(d, ok)

\* documents.py update_document, lines 208-213: 404 when the record is not there.
ApiUpdateDocumentGet(p, u, d, tags) ==
    /\ dreq[p].pc = "idle"
    /\ IF get_document(u, d) # {}
       THEN /\ dreq' = [dreq EXCEPT ![p] =
                           [IdleDocReq EXCEPT !.pc = "db_update", !.user = u,
                                              !.doc_id = d, !.tags = tags]]
            /\ UNCHANGED dresp
       ELSE /\ dresp' = DocResponse("update", 404, d)
            /\ UNCHANGED dreq
    /\ UNCHANGED <<docs, vectors, task, deleted>>
    /\ UNCHANGED chatVars
    /\ UNCHANGED userVars
    /\ UNCHANGED queryVars

\* documents.py lines 216-219, db.update_document: its get_document; on None,
\* DocumentMetadata(**updated_doc) raises and the application answers 500.
ApiUpdateDocumentRead(p) ==
    /\ dreq[p].pc = "db_update"
    /\ dreq[p].doc = NoDoc
    /\ LET found == get_document(dreq[p].user, dreq[p].doc_id) IN
       IF found = {}
       THEN /\ dresp' = DocResponse("update", 500, dreq[p].doc_id)
            /\ dreq' = [dreq EXCEPT ![p] = IdleDocReq]
       ELSE /\ \E r \in found : dreq' = [dreq EXCEPT ![p].doc = r]
            /\ UNCHANGED dresp
    /\ UNCHANGED <<docs, vectors, task, deleted>>
    /\ UNCHANGED chatVars
    /\ UNCHANGED userVars
    /\ UNCHANGED queryVars

\* db.update_document, lines 157-162, for the handler: save the record read,
\* with the tags set; the handler answers with it.
ApiUpdateDocumentWrite(p) ==
    /\ dreq[p].pc = "db_update"
    /\ dreq[p].doc # NoDoc
    /\ docs' = [docs EXCEPT ![dreq[p].user] =
                   update_document(@, dreq[p].doc, TagUpdate(dreq[p].tags))]
    /\ dresp' = DocResponse("update", 200, dreq[p].doc_id)
    /\ dreq' = [dreq EXCEPT ![p] = IdleDocReq]
    /\ UNCHANGED <<vectors, task, deleted>>
    /\ UNCHANGED chatVars
    /\ UNCHANGED userVars
    /\ UNCHANGED queryVars

\* documents.py delete_document, lines 228-233: 404 when the record is not there.
ApiDeleteDocumentGet(p, u, d) ==
    /\ dreq[p].pc = "idle"
    /\ IF get_document(u, d) # {}
       THEN /\ dreq' = [dreq EXCEPT ![p] =
                           [IdleDocReq EXCEPT !.pc = "del_meta", !.user = u,
                                              !.doc_id = d]]
            /\ UNCHANGED dresp
       ELSE /\ dresp' = DocResponse("delete", 404, d)
            /\ UNCHANGED dreq
    /\ UNCHANGED <<docs, vectors, task, deleted>>
    /\ UNCHANGED chatVars
    /\ UNCHANGED userVars
    /\ UNCHANGED queryVars

\* documents.py line 236, db.delete_document: it removes the file and returns
\* True, or returns False when os.remove raises; the handler drops the value.
ApiDeleteDocumentMeta(p, removed) ==
    /\ dreq[p].pc = "del_meta"
    /\ docs' = [docs EXCEPT ![dreq[p].user] =
                   IF removed THEN remove_document(@, dreq[p].doc_id) ELSE @]
    /\ dreq' = [dreq EXCEPT ![p].pc = "del_chunks"]
    /\ UNCHANGED <<vectors, task, dresp, deleted>>
    /\ UNCHANGED chatVars
    /\ UNCHANGED userVars
    /\ UNCHANGED queryVars

\* documents.py line 239, document_store.delete_document_chunks: it raises when
\* the collection does, and the application answers 500.
ApiDeleteDocumentChunks(p, ok) ==
    /\ dreq[p].pc = "del_chunks"
    /\ IF ok
       THEN /\ vectors' = [vectors EXCEPT ![dreq[p].user] =
                              delete_document_chunks(@, dreq[p].doc_id)]
            /\ dreq' = [dreq EXCEPT ![p].pc = "del_file"]
            /\ UNCHANGED dresp
       ELSE /\ dresp' = DocResponse("delete", 500, dreq[p].doc_id)
            /\ dreq' = [dreq EXCEPT ![p] = IdleDocReq]
            /\ UNCHANGED vectors
    /\ UNCHANGED <<docs, task, deleted>>
    /\ UNCHANGED chatVars
    /\ UNCHANGED userVars
    /\ UNCHANGED queryVars

\* documents.py lines 242-249: remove the stored upload, answer
\* "Document deleted successfully".
ApiDeleteDocumentReturn(p) ==
    /\ dreq[p].pc = "del_file"
    /\ dresp' = DocResponse("delete", 200, dreq[p].doc_id)
    /\ deleted' = deleted \cup {dreq[p].doc_id}
    /\ dreq' = [dreq EXCEPT ![p] = IdleDocReq]
    /\ UNCHANGED <<docs, vectors, task>>
    /\ UNCHANGED chatVars
    /\ UNCHANGED userVars
    /\ UNCHANGED queryVars

\* Uploads, tag edits, deletes and the background tasks: every read or write of
\* a metadata file and every call of the vector store is one step, and the
\* steps of different handlers and tasks interleave.
NextDoc ==
    \/ \E p \in Procs, u \in Clients, d \in DocIds, tags \in TagSets,
          accepted \in BOOLEAN : UploadDocument(p, u, d, tags, accepted)
    \/ \E d \in DocIds : IngestStep(d)
    \/ \E p \in Procs, u \in Clients, d \in DocIds, tags \in TagSets :
          ApiUpdateDocumentGet(p, u, d, tags)
    \/ \E p \in Procs : ApiUpdateDocumentRead(p)
    \/ \E p \in Procs : ApiUpdateDocumentWrite(p)
    \/ \E p \in Procs, u \in Clients, d \in DocIds : ApiDeleteDocumentGet(p, u, d)
    \/ \E p \in Procs, ok \in BOOLEAN : ApiDeleteDocumentMeta(p, ok)
    \/ \E p \in Procs, ok \in BOOLEAN : ApiDeleteDocumentChunks(p, ok)
    \/ \E p \in Procs : ApiDeleteDocumentReturn(p)

(***************************************************************************)
(* Queries: the vector search and the confidence of an answer.             *)
(***************************************************************************)
Range(s) == {s[i] : i \in DOMAIN s}
Min(S) == CHOOSE x \in S : \A y \in S : x <= y
Max(S) == CHOOSE x \in S : \A y \in S : x >= y

\* A rational number num / den, den > 0: the model's float.
Rat(num, den) == [num |-> num, den |-> den]
RatLess(a, b) == a.num * b.den < b.num * a.den
RatEq(a, b) == a.num * b.den = b.num * a.den

\* query_engine.py line 127: "min(distances) >= 0 and max(distances) <= 1".
LikelyCosine(ds) == Min(Range(ds)) >= 0 /\ Max(Range(ds)) <= Unit

\* query_engine.py lines 132-134: range_dist, in units of 1/Unit when the
\* distances differ, else the number 1.
RangeDist(ds) ==
    IF Max(Range(ds)) > Min(Range(ds)) THEN Max(Range(ds)) - Min(Range(ds)) ELSE 1

\* query_engine.py lines 127-135: the similarities, as numerators over the
\* common denominator SimilarityDen. With all distances equal and not all in
\* [0, 1], (d - min_dist) / 1 is 0 and every similarity is 1.
SimilarityDen(ds) == IF LikelyCosine(ds) THEN Unit ELSE RangeDist(ds)
Similarities(ds) ==
    IF LikelyCosine(ds)
    THEN [i \in DOMAIN ds |-> Unit - ds[i]]
    ELSE IF Max(Range(ds)) > Min(Range(ds))
         THEN [i \in DOMAIN ds |-> RangeDist(ds) - (ds[i] - Min(Range(ds)))]
         ELSE [i \in DOMAIN ds |-> 1]

\* sorted(similarities, reverse=True)
RECURSIVE SortedDescending(_)
SortedDescending(s) ==
    IF s = <<>> THEN <<>>
    ELSE LET i == CHOOSE i \in DOMAIN s : \A j \in DOMAIN s : s[i] >= s[j]
         IN <<s[i]>> \o SortedDescending(SubSeq(s, 1, i - 1) \o
                                         SubSeq(s, i + 1, Len(s)))

\* query_engine.py line 138: sorted(similarities, reverse=True)[:3]
TopSimilarities(sims) ==
    LET sorted == SortedDescending(sims)
    IN SubSeq(sorted, 1, IF Len(sorted) < 3 THEN Len(sorted) ELSE 3)

\* query_engine.py line 141: [0.6, 0.3, 0.1][:len(top_similarities)], in tenths.
Weights(n) == SubSeq(<<6, 3, 1>>, 1, n)

RECURSIVE Sum(_)
Sum(s) == IF s = <<>> THEN 0 ELSE Head(s) + Sum(Tail(s))

\* A confidence whose weights are not divided by their sum.
RawConfidence_Unnormalised(ds) ==
    LET top == TopSimilarities(Similarities(ds))
        w == Weights(Len(top))
    IN Rat(Sum([i \in DOMAIN top |-> top[i] * w[i]]), SimilarityDen(ds) * 10)

\* query_engine.py lines 143-147: the weights divided by their sum, and the
\* weighted sum of the top similarities.
RawConfidence(ds) ==
    LET top == TopSimilarities(Similarities(ds))
        w == Weights(Len(top))
    IN Rat(Sum([i \in DOMAIN top |-> top[i] * w[i]]), SimilarityDen(ds) * Sum(w))

\* query_engine.py lines 151-156, over the denominator 100 * raw.den:
\* raw * 0.5, 0.2 + (raw - 0.2) * 0.7 and 0.41 + (raw - 0.5) * 1.18.
Rescale(raw) ==
    IF RatLess(raw, Rat(2, 10)) THEN Rat(50 * raw.num, 100 * raw.den)
    ELSE IF RatLess(raw, Rat(5, 10))
         THEN Rat(20 * raw.den + 70 * raw.num - 14 * raw.den, 100 * raw.den)
         ELSE Rat(41 * raw.den + 118 * raw.num - 59 * raw.den, 100 * raw.den)

\* A confidence that is not clamped.
Clamp_None(c) == c

\* query_engine.py line 159: max(0.01, min(1.0, confidence))
Clamp(c) ==
    IF RatLess(c, Rat(1, 100)) THEN Rat(1, 100)
    ELSE IF RatLess(Rat(1, 1), c) THEN Rat(1, 1) ELSE c

\* query_engine.py line 120: the default confidence level.
DefaultConfidence == Rat(5, 10)

\* query_engine.py lines 120-159: the confidence of a list of distances.
Confidence(ds) ==
    IF Len(ds) > 0 THEN Clamp(Rescale(RawConfidence(ds))) ELSE DefaultConfidence

\* collection.query(query_embeddings, n_results, where), as search_chunks calls
\* it: the results it may return for the distances dist of the candidates, the
\* n_results nearest in ascending distance, fewer when there are fewer.
search_chunks(u, filter_doc_ids, max_results, dist) ==
    LET candidates == search_candidates(u, filter_doc_ids)
        n == IF Cardinality(candidates) < max_results
             THEN Cardinality(candidates) ELSE max_results
    IN {s \in [1..n -> candidates] :
          /\ \A i, j \in 1..n : i < j => s[i] # s[j] /\ dist[s[i]] <= dist[s[j]]
          /\ \A c \in candidates \ Range(s) : \A i \in 1..n : dist[s[i]] <= dist[c]}

\* A query that lists the sources from the last result to the first.
Sources_Reversed(results, dist) ==
    [i \in DOMAIN results |->
        [document_id |-> results[Len(results) + 1 - i].doc_id,
         chunk_index |-> results[Len(results) + 1 - i].chunk_index,
         section |-> i,
         relevance_score |-> dist[results[Len(results) + 1 - i]]]]

\* query_engine.py lines 105-117: one source for each result, in their order;
\* chunk_index stands for the filename and page of the chunk's metadata.
Sources(results, dist) ==
    [i \in DOMAIN results |->
        [document_id |-> results[i].doc_id, chunk_index |-> results[i].chunk_index,
         section |-> i, relevance_score |-> dist[results[i]]]]

QueryResponse(code, u, filter_doc_ids, max_results, sources, conf) ==
    [code |-> code, user |-> u, document_ids |-> filter_doc_ids,
     max_results |-> max_results, sources |-> sources, confidence |-> conf]

QueryInit ==
    /\ qresp = QueryResponse(0, "none", {}, 0, <<>>, DefaultConfidence)
    /\ distances = <<>>
    /\ confidence = DefaultConfidence

\* queries.py process_query with document_ids given or no filter at all, and
\* QueryEngine.query: embed the question, search, ask the model, build the
\* sources and the confidence; any exception is answered 500.
ApiQuery(u, filter_doc_ids, max_results, dist, ok) ==
    /\ IF ok
       THEN \E results \in search_chunks(u, filter_doc_ids, max_results, dist) :
               LET sources == Sources(results, dist)
               IN qresp' = QueryResponse(200, u, filter_doc_ids, max_results, sources,
                              Confidence([i \in DOMAIN sources |->
                                             sources[i].relevance_score]))
       ELSE qresp' = QueryResponse(500, u, filter_doc_ids, max_results, <<>>,
                                   DefaultConfidence)
    /\ UNCHANGED <<distances, confidence>>
    /\ UNCHANGED chatVars
    /\ UNCHANGED userVars
    /\ UNCHANGED docVars

\* queries.py line 110: "query_request.max_results or 5", a request without
\* max_results (here 0, which "or" treats alike) asks for 5.
EffectiveMaxResults(k) == IF k = 0 THEN DefaultMaxResults ELSE k

\* A document of bob, ingested before the requests of the clients begin.
OtherDocIds == {"d0"}
AllDocIds == DocIds \cup OtherDocIds
OtherDoc(d) == [doc_id |-> d, status |-> "processed", tags |-> {}, error |-> "",
                num_pages |-> 1]

QueryStoreInit ==
    /\ docs = [u \in Users |-> IF u \in Clients THEN {}
                                ELSE {OtherDoc(d) : d \in OtherDocIds}]
    /\ vectors = [u \in Users |-> IF u \in Clients THEN {}
                                   ELSE {[doc_id |-> d, chunk_index |-> 0] :
                                            d \in OtherDocIds}]
    /\ task = [d \in DocIds |-> NoTask]
    /\ dreq = [p \in Procs |-> IdleDocReq]
    /\ dresp = DocResponse("none", 0, "none")
    /\ deleted = {}
    /\ users = RegisteredUsers
    /\ uresp = [code |-> 0, username |-> "none", email |-> {}]

\* The document_ids of a query request: none, or one document.
DocFilters == {{}} \cup {{d} : d \in AllDocIds}

\* The worker that serves the uploads and deletes beside the queries.
QueryProcs == {"p1"}

\* Uploads, the background tasks, deletes and queries; a query is one step of
\* its worker, between any two steps of the others.
NextQuery ==
    \/ \E p \in QueryProcs, u \in Clients, d \in DocIds, accepted \in BOOLEAN :
          UploadDocument(p, u, d, {}, accepted)
    \/ \E d \in DocIds : IngestStep(d)
    \/ \E p \in QueryProcs, u \in Clients, d \in DocIds : ApiDeleteDocumentGet(p, u, d)
    \/ \E p \in QueryProcs, ok \in BOOLEAN : ApiDeleteDocumentMeta(p, ok)
    \/ \E p \in QueryProcs, ok \in BOOLEAN : ApiDeleteDocumentChunks(p, ok)
    \/ \E p \in QueryProcs : ApiDeleteDocumentReturn(p)
    \/ \E u \in Users, filter_doc_ids \in DocFilters, k \in 0..MaxResults,
          ok \in BOOLEAN :
          \E dist \in [search_candidates(u, filter_doc_ids) -> 0..MaxDistance] :
             ApiQuery(u, filter_doc_ids, EffectiveMaxResults(k), dist, ok)

\* The lists of distances a search may report: up to MaxLen values between
\* -1 and 2 in steps of 1/Unit. The arithmetic of the confidence is that of
\* the reals; the rounding of Python's floats is not modelled.
DistanceGrid == (0 - Unit)..(2 * Unit)
DistanceLists == UNION {[1..n -> DistanceGrid] : n \in 0..MaxLen}

\* No confidence computed yet; a computed confidence is at least 0.01.
NotComputed == Rat(0, 1)

\* QueryEngine.query, lines 119-159, on the distances of its search result.
ComputeConfidence ==
    /\ confidence = NotComputed
    /\ confidence' = Confidence(distances)
    /\ UNCHANGED <<qresp, distances>>
    /\ UNCHANGED chatVars
    /\ UNCHANGED userVars
    /\ UNCHANGED docVars

\* The next query: its search result differs from the last in one position,
\* where the distance is smaller.
LowerDistance(i, g) ==
    /\ confidence # NotComputed
    /\ i \in DOMAIN distances
    /\ g < distances[i]
    /\ distances' = [distances EXCEPT ![i] = g]
    /\ confidence' = Confidence(distances')
    /\ UNCHANGED qresp
    /\ UNCHANGED chatVars
    /\ UNCHANGED userVars
    /\ UNCHANGED docVars

NextConfidence ==
    \/ ComputeConfidence
    \/ \E i \in 1..MaxLen, g \in DistanceGrid : LowerDistance(i, g)

(***************************************************************************)
(* The chat files. In the specifications of this section a record of       *)
(* chats[u] is the whole content of the file db/chats/<u>/<chat_id>.json,  *)
(* parsable or not, and creq[p] holds the locals of the handler's calls of *)
(* get_chat, update_chat and create_chat, one step for each access to the  *)
(* file. The file system is that of POSIX.                                 *)
(***************************************************************************)
\* A file that json.load rejects: empty after open(path, 'w'), or cut short.
CorruptFile(id) ==
    [chat_id |-> id, parsable |-> FALSE, title |-> "", user_id |-> "",
     created_at |-> 0, updated_at |-> 0, messages |-> 0]

\* A repair that leaves the title empty.
MinimalChat_Untitled(id, t1, t2) ==
    [chat_id |-> id, parsable |-> TRUE, title |-> "", user_id |-> "unknown",
     created_at |-> t1, updated_at |-> t2, messages |-> 0]

\* _repair_chat_file, lines 208-215: minimal_chat.
MinimalChat(id, t1, t2) ==
    [chat_id |-> id, parsable |-> TRUE, title |-> "Recovered Chat",
     user_id |-> "unknown", created_at |-> t1, updated_at |-> t2, messages |-> 0]

\* chats.py create_chat, lines 59-64, and database.py lines 263-265.
NewChat(id, u, t) ==
    [chat_id |-> id, parsable |-> TRUE, title |-> "New Chat", user_id |-> u,
     created_at |-> t, updated_at |-> t, messages |-> 0]

\* open(path, 'w'): the file is there and empty.
open_w(S, id) == write_chat(S, CorruptFile(id))

\* A json.dump that writes nothing.
json_dump_Nothing(S, contents) == S

\* json.dump into the file opened for writing; the write of a file that was
\* removed since goes to no directory entry.
json_dump(S, contents) ==
    IF \E c \in S : c.chat_id = contents.chat_id THEN write_chat(S, contents) ELSE S

\* json.load of the files read: the records of those that parse.
json_load(files) == {c \in files : c.parsable}

\* The two values datetime.utcnow() returns to _repair_chat_file.
UtcNowTwice == {tt \in UtcNow \X (0..MaxTime) : tt[2] \in {tt[1], tt[1] + 1}}

\* get_chats_for_user, lines 175-197, in one piece: every file that does not
\* parse is repaired, at the times tt.
RepairAll(S, tt) ==
    {IF c.parsable THEN c ELSE MinimalChat(c.chat_id, tt[1], tt[2]) : c \in S}

\* The locals of a handler: the call it is in, where that call returns to,
\* the record it has read or is writing, whether its get_chat has repaired.
IdleFileReq == [pc |-> "idle", ret |-> "none", user |-> "alice", chat_id |-> 0,
                rec |-> {}, repaired |-> FALSE]

\* What a handler answers: the records are those of the response body.
FileResponse(op, code, id, records, repaired) ==
    [op |-> op, code |-> code, chat_id |-> id, records |-> records,
     repaired |-> repaired]

FileInit ==
    /\ chats = [u \in Users |-> {}]
    /\ nextChatId = 1
    /\ clock = 0
    /\ creq = [p \in Procs |-> IdleFileReq]
    /\ resp = FileResponse("none", 0, 0, {}, FALSE)

\* The handlers that have the file of the chat open for writing.
Writers(u, id) ==
    {q \in Procs : /\ creq[q].pc \in {"dump", "repair_dump"}
                    /\ creq[q].user = u
                    /\ creq[q].chat_id = id}

\* get_chat has returned result to the handler p: chats.py get_chat answers
\* (lines 38-44); add_message goes on to db.update_chat or answers 404 (lines
\* 89-103); update_chat sets the fields and the timestamp or returns None
\* (database.py lines 284-294), on which the application answers 500.
Return(p, result, repaired) ==
    LET r == creq[p] IN
    IF r.ret = "get"
    THEN /\ resp' = FileResponse("get_chat", IF result = {} THEN 404 ELSE 200,
                                 r.chat_id, result, repaired)
         /\ creq' = [creq EXCEPT ![p] = IdleFileReq]
    ELSE IF result = {}
         THEN /\ resp' = FileResponse("add_message",
                                      IF r.ret = "api" THEN 404 ELSE 500,
                                      r.chat_id, {}, repaired)
              /\ creq' = [creq EXCEPT ![p] = IdleFileReq]
         ELSE IF r.ret = "api"
              THEN /\ creq' = [creq EXCEPT ![p].pc = "read", ![p].ret = "db",
                                           ![p].rec = result,
                                           ![p].repaired = repaired]
                   /\ UNCHANGED resp
              ELSE /\ creq' = [creq EXCEPT ![p].pc = "open"]
                   /\ UNCHANGED resp

\* The runs append to a chat that holds fewer than MaxMessages messages.
WithinBounds(p, result) ==
    creq[p].ret = "api" => \A r \in result : r.messages < MaxMessages

\* chats.py get_chat: GET /chats/{chat_id}.
FileGetChat(p, u, id) ==
    /\ creq[p].pc = "idle"
    /\ creq' = [creq EXCEPT ![p] = [IdleFileReq EXCEPT !.pc = "read", !.ret = "get",
                                                       !.user = u, !.chat_id = id]]
    /\ UNCHANGED <<chats, nextChatId, clock, resp>>
    /\ UNCHANGED docVars
    /\ UNCHANGED userVars
    /\ UNCHANGED queryVars

\* chats.py add_message: POST /chats/{chat_id}/messages.
FileAddMessage(p, u, id) ==
    /\ creq[p].pc = "idle"
    /\ creq' = [creq EXCEPT ![p] = [IdleFileReq EXCEPT !.pc = "read", !.ret = "api",
                                                       !.user = u, !.chat_id = id]]
    /\ UNCHANGED <<chats, nextChatId, clock, resp>>
    /\ UNCHANGED docVars
    /\ UNCHANGED userVars
    /\ UNCHANGED queryVars

\* database.py get_chat, lines 225-234: None when the file is not there, the
\* record when it parses, else the repair.
FileRead(p) ==
    /\ creq[p].pc = "read"
    /\ LET file == get_chat(creq[p].user, creq[p].chat_id) IN
       IF file # {} /\ json_load(file) = {}
       THEN /\ creq' = [creq EXCEPT ![p].pc = "repair_open"]
            /\ UNCHANGED resp
       ELSE /\ WithinBounds(p, json_load(file))
            /\ Return(p, json_load(file), creq[p].repaired)
    /\ UNCHANGED <<chats, nextChatId, clock>>
    /\ UNCHANGED docVars
    /\ UNCHANGED userVars
    /\ UNCHANGED queryVars

\* _repair_chat_file, lines 205-218: minimal_chat, and open(chat_path, 'w').
FileRepairOpen(p) ==
    /\ creq[p].pc = "repair_open"
    /\ \E tt \in UtcNowTwice :
          /\ clock' = tt[2]
          /\ creq' = [creq EXCEPT ![p].pc = "repair_dump", ![p].repaired = TRUE,
                                  ![p].rec = {MinimalChat(creq[p].chat_id,
                                                          tt[1], tt[2])}]
    /\ chats' = [chats EXCEPT ![creq[p].user] = open_w(@, creq[p].chat_id)]
    /\ UNCHANGED <<nextChatId, resp>>
    /\ UNCHANGED docVars
    /\ UNCHANGED userVars
    /\ UNCHANGED queryVars

\* What a json.dump leaves in the file: the record, or when another handler
\* has the file open for writing too, possibly the bytes of both.
Written(p, contents) ==
    IF Writers(creq[p].user, creq[p].chat_id) = {p} THEN {contents}
    ELSE {contents, CorruptFile(contents.chat_id)}

\* _repair_chat_file, line 219: json.dump(minimal_chat, f). The runs are those
\* in which the write of the repair does not fail.
FileRepairDump(p) ==
    /\ creq[p].pc = "repair_dump"
    /\ \E r \in creq[p].rec : \E w \in Written(p, r) :
          chats' = [chats EXCEPT ![creq[p].user] = json_dump(@, w)]
    /\ creq' = [creq EXCEPT ![p].pc = "reread"]
    /\ UNCHANGED <<nextChatId, clock, resp>>
    /\ UNCHANGED docVars
    /\ UNCHANGED userVars
    /\ UNCHANGED queryVars

\* get_chat, lines 240-244: read the repaired file; None on any exception.
FileReread(p) ==
    /\ creq[p].pc = "reread"
    /\ WithinBounds(p, json_load(get_chat(creq[p].user, creq[p].chat_id)))
    /\ Return(p, json_load(get_chat(creq[p].user, creq[p].chat_id)), TRUE)
    /\ UNCHANGED <<chats, nextChatId, clock>>
    /\ UNCHANGED docVars
    /\ UNCHANGED userVars
    /\ UNCHANGED queryVars

\* update_chat, lines 290-300, called by add_message with the chat it has
\* read and appended to as updates: every field is set from it, then the
\* timestamp, and the file is opened for writing.
FileUpdateOpen(p) ==
    /\ creq[p].pc = "open"
    /\ \E t \in UtcNow, r \in creq[p].rec :
          /\ clock' = t
          /\ creq' = [creq EXCEPT ![p].pc = "dump",
                                  ![p].rec = {[r EXCEPT !.messages = @ + 1,
                                                        !.updated_at = t]}]
    /\ chats' = [chats EXCEPT ![creq[p].user] = open_w(@, creq[p].chat_id)]
    /\ UNCHANGED <<nextChatId, resp>>
    /\ UNCHANGED docVars
    /\ UNCHANGED userVars
    /\ UNCHANGED queryVars

\* create_chat and update_chat: json.dump of the record, which is returned;
\* when json.dump raises (lines 278-280, 304-306) the file stays as it is and
\* the application answers 500.
FileDump(p, ok) ==
    /\ creq[p].pc = "dump"
    /\ IF ok
       THEN \E r \in creq[p].rec : \E w \in Written(p, r) :
               /\ chats' = [chats EXCEPT ![creq[p].user] = json_dump(@, w)]
               /\ resp' = FileResponse(creq[p].ret, 200, creq[p].chat_id, {r},
                                       creq[p].repaired)
       ELSE /\ resp' = FileResponse(creq[p].ret, 500, creq[p].chat_id, {},
                                    creq[p].repaired)
            /\ UNCHANGED chats
    /\ creq' = [creq EXCEPT ![p] = IdleFileReq]
    /\ UNCHANGED <<nextChatId, clock>>
    /\ UNCHANGED docVars
    /\ UNCHANGED userVars
    /\ UNCHANGED queryVars

\* chats.py create_chat and database.py create_chat up to open(chat_path, 'w'):
\* the two listings of the chats, which repair, the limit, the new record.
FileCreateChat(p, u) ==
    /\ creq[p].pc = "idle"
    /\ nextChatId <= MaxChatFiles
    /\ Cardinality(chats[u]) < ApiChatLimit
    /\ \E tt \in UtcNowTwice, t \in 0..MaxTime :
          /\ t \in {tt[2], tt[2] + 1}
          /\ clock' = t
          /\ chats' = [chats EXCEPT ![u] = open_w(RepairAll(@, tt), nextChatId)]
          /\ creq' = [creq EXCEPT ![p] =
                          [IdleFileReq EXCEPT !.pc = "dump", !.ret = "create_chat",
                                              !.user = u, !.chat_id = nextChatId,
                                              !.rec = {NewChat(nextChatId, u, t)}]]
    /\ nextChatId' = nextChatId + 1
    /\ UNCHANGED resp
    /\ UNCHANGED docVars
    /\ UNCHANGED userVars
    /\ UNCHANGED queryVars

\* chats.py delete_chat: db.delete_chat removes the file when it is there.
FileDeleteChat(p, u, id) ==
    /\ creq[p].pc = "idle"
    /\ chats' = [chats EXCEPT ![u] = delete_chat(@, id)]
    /\ resp' = FileResponse("delete_chat", IF get_chat(u, id) # {} THEN 200 ELSE 404,
                            id, {}, FALSE)
    /\ UNCHANGED <<nextChatId, clock, creq>>
    /\ UNCHANGED docVars
    /\ UNCHANGED userVars
    /\ UNCHANGED queryVars

\* chats.py list_chats: get_chats_for_user, which repairs the files that do
\* not parse and returns every record.
FileListChats(p, u) ==
    /\ creq[p].pc = "idle"
    /\ \E tt \in UtcNowTwice :
          /\ chats' = [chats EXCEPT ![u] = RepairAll(@, tt)]
          /\ clock' = IF chats'[u] = chats[u] THEN clock ELSE tt[2]
          /\ resp' = FileResponse("list_chats", 200, 0, chats'[u],
                                  chats'[u] # chats[u])
    /\ UNCHANGED <<nextChatId, creq>>
    /\ UNCHANGED docVars
    /\ UNCHANGED userVars
    /\ UNCHANGED queryVars

\* A handler that is inside a call of get_chat, update_chat or create_chat.
InFileCall(p) == creq[p].pc \in {"repair_open", "repair_dump", "reread", "open", "dump"}

\* p may take a step when no other handler is inside a call of the store.
FileTurn(p) == \A q \in Procs \ {p} : ~InFileCall(q)

\* Every access to a chat file interleaves with those of the other handler.
NextFiles ==
    \/ \E p \in Procs, u \in Clients : FileCreateChat(p, u)
    \/ \E p \in Procs, u \in Clients, id \in KnownChatIds : FileGetChat(p, u, id)
    \/ \E p \in Procs, u \in Clients, id \in KnownChatIds : FileAddMessage(p, u, id)
    \/ \E p \in Procs : FileRead(p)
    \/ \E p \in Procs : FileRepairOpen(p)
    \/ \E p \in Procs : FileRepairDump(p)
    \/ \E p \in Procs : FileReread(p)
    \/ \E p \in Procs : FileUpdateOpen(p)
    \/ \E p \in Procs, ok \in BOOLEAN : FileDump(p, ok)
    \/ \E p \in Procs, u \in Clients, id \in KnownChatIds : FileDeleteChat(p, u, id)
    \/ \E p \in Procs, u \in Clients : FileListChats(p, u)

\* Every call of the metadata store runs to completion; the handlers
\* interleave between their calls.
NextRepair ==
    \/ \E p \in Procs, u \in Clients : FileTurn(p) /\ FileCreateChat(p, u)
    \/ \E p \in Procs, u \in Clients, id \in KnownChatIds :
          FileTurn(p) /\ FileGetChat(p, u, id)
    \/ \E p \in Procs, u \in Clients, id \in KnownChatIds :
          FileTurn(p) /\ FileAddMessage(p, u, id)
    \/ \E p \in Procs : FileTurn(p) /\ FileRead(p)
    \/ \E p \in Procs : FileTurn(p) /\ FileRepairOpen(p)
    \/ \E p \in Procs : FileTurn(p) /\ FileRepairDump(p)
    \/ \E p \in Procs : FileTurn(p) /\ FileReread(p)
    \/ \E p \in Procs : FileTurn(p) /\ FileUpdateOpen(p)
    \/ \E p \in Procs, ok \in BOOLEAN : FileTurn(p) /\ FileDump(p, ok)
    \/ \E p \in Procs, u \in Clients, id \in KnownChatIds :
          FileTurn(p) /\ FileDeleteChat(p, u, id)
    \/ \E p \in Procs, u \in Clients : FileTurn(p) /\ FileListChats(p, u)

InitFiles == FileInit /\ DocInit /\ QueryInit

(***************************************************************************)
(* Owners: the usernames of registered users, which /auth/register takes   *)
(* as any string, and the directories their records are kept in.           *)
(***************************************************************************)
\* The usernames "alice", "bob" and "bob/.", each as its path segments.
Owners == {<<"alice">>, <<"bob">>, <<"bob", ".">>}

\* The path the operating system resolves: "." is dropped, ".." drops the
\* segment before it.
RECURSIVE Normalise(_)
Normalise(path) ==
    IF path = <<>> THEN <<>>
    ELSE LET rest == Normalise(SubSeq(path, 1, Len(path) - 1))
             last == path[Len(path)]
         IN IF last = "." THEN rest
            ELSE IF last = ".."
                 THEN SubSeq(rest, 1, IF rest = <<>> THEN 0 ELSE Len(rest) - 1)
                 ELSE Append(rest, last)

\* database.py: f"{self.chats_dir}/{username}" and
\* f"{self.documents_dir}/{username}", the directory the path names.
UserDir(owner) == Normalise(owner)[1]

\* The owners whose requests the runs explore; bob makes none.
Requesters == Owners \ {<<"bob">>}

\* The chats a request may name: those created in the run and bob's.
RequestChatIds == {0} \cup KnownChatIds

\* The requests of the owners on the chats and on the tags of the documents
\* that are there; every handler gets
\* current_user.username from the token and hands it to the metadata store.
NextOwners ==
    \/ \E p \in Procs, o \in Requesters, id \in RequestChatIds :
          ApiDeleteChat(p, UserDir(o), id)
    \/ \E p \in Procs, o \in Requesters, id \in RequestChatIds :
          ApiGetChat(p, UserDir(o), id)
    \/ \E p \in Procs, o \in Requesters : ApiListChats(p, UserDir(o))
    \/ \E p \in Procs, o \in Requesters, id \in RequestChatIds :
          ApiUpdateChatGet(p, UserDir(o), id)
    \/ \E p \in Procs : DbUpdateChat(p)
    \/ \E p \in Procs, o \in Requesters, d \in AllDocIds, tags \in TagSets :
          ApiUpdateDocumentGet(p, UserDir(o), d, tags)
    \/ \E p \in Procs : ApiUpdateDocumentRead(p)
    \/ \E p \in Procs : ApiUpdateDocumentWrite(p)

\* The documents whose chunks are added under the user o.
AddedUnder(o) == IF o \in Clients THEN DocIds ELSE OtherDocIds

\* The chunks of a document of the user; the other user's has one chunk.
ChunkIndexes(u) == IF u \in Clients THEN 0..(MaxChunks - 1) ELSE {0}

\* DocumentStore.add_chunk, called for a chunk of a document of the user.
StoreAddChunk(u, d, i) ==
    /\ vectors' = [vectors EXCEPT ![u] = add_chunk(@, d, i)]
    /\ UNCHANGED <<docs, task, dreq, dresp, deleted>>
    /\ UNCHANGED chatVars
    /\ UNCHANGED userVars
    /\ UNCHANGED queryVars

\* DocumentStore.delete_document_chunks
StoreDeleteChunks(u, d) ==
    /\ vectors' = [vectors EXCEPT ![u] = delete_document_chunks(@, d)]
    /\ UNCHANGED <<docs, task, dreq, dresp, deleted>>
    /\ UNCHANGED chatVars
    /\ UNCHANGED userVars
    /\ UNCHANGED queryVars

\* The calls of the vector store in any order, for every user, and queries.
NextSearch ==
    \/ \E u \in Users, d \in AllDocIds, i \in 0..(MaxChunks - 1) :
          d \in AddedUnder(u) /\ i \in ChunkIndexes(u) /\ StoreAddChunk(u, d, i)
    \/ \E u \in Users, d \in AllDocIds : StoreDeleteChunks(u, d)
    \/ \E u \in Users, filter_doc_ids \in DocFilters, k \in 0..MaxResults,
          ok \in BOOLEAN :
          \E dist \in [search_candidates(u, filter_doc_ids) -> 0..MaxDistance] :
             ApiQuery(u, filter_doc_ids, EffectiveMaxResults(k), dist, ok)

(***************************************************************************)
(* Messages: the requests on one chat, each served to its end before the   *)
(* next. chats[u] holds the whole records, with the list of the message    *)
(* ids, and resp the request answered last.                                *)
(***************************************************************************)
MessageChatIds == {1}              \* the values uuid4() takes for the chats
MessageIds == {"m1", "m2"}         \* the ids the client gives its messages
Titles == {"a", "b"}               \* the titles a request may carry
Scopes == {<<>>, <<"d1">>}         \* the document_ids a request may carry

\* The lists of messages a PUT /chats/{chat_id} may carry.
MessageLists == UNION {[1..n -> MessageIds] : n \in 0..MaxMessageList}

\* chats.py create_chat, lines 59-64, and database.py create_chat, lines
\* 263-269: the chat data of the request, the timestamps, no messages.
CreatedChat(id, u, title, scope, t) ==
    [chat_id |-> id, title |-> title, document_ids |-> scope, user_id |-> u,
     created_at |-> t, updated_at |-> t, messages |-> <<>>]

\* chat_update.dict(exclude_unset=True) of a ChatUpdate: the fields the
\* request sets, each a set of at most one value.
NoUpdates ==
    [chat_id |-> {}, title |-> {}, document_ids |-> {}, user_id |-> {},
     created_at |-> {}, updated_at |-> {}, messages |-> {}]

ChatUpdates ==
    {[NoUpdates EXCEPT !.title = ti, !.document_ids = sc, !.messages = ms] :
        ti \in {{}} \cup {{x} : x \in Titles},
        sc \in {{}} \cup {{x} : x \in Scopes},
        ms \in {{}} \cup {{x} : x \in MessageLists}}

\* add_message and delete_message pass the chat they have read, with its
\* messages changed, as the updates: every key of the record.
AsUpdates(chat) ==
    [chat_id |-> {chat.chat_id}, title |-> {chat.title},
     document_ids |-> {chat.document_ids}, user_id |-> {chat.user_id},
     created_at |-> {chat.created_at}, updated_at |-> {chat.updated_at},
     messages |-> {chat.messages}]

\* The value of a key after the loop: that of the updates if they have the key.
Value(old, set) == IF set = {} THEN old ELSE CHOOSE v \in set : TRUE

\* update_chat, lines 290-291: "for key, value in updates.items()".
set_chat_fields(chat, updates) ==
    [chat_id |-> Value(chat.chat_id, updates.chat_id),
     title |-> Value(chat.title, updates.title),
     document_ids |-> Value(chat.document_ids, updates.document_ids),
     user_id |-> Value(chat.user_id, updates.user_id),
     created_at |-> Value(chat.created_at, updates.created_at),
     updated_at |-> Value(chat.updated_at, updates.updated_at),
     messages |-> Value(chat.messages, updates.messages)]

\* An update_chat that leaves the timestamp as it is.
Touch_Kept(chat, t) == chat

\* update_chat, line 294: chat["updated_at"] = datetime.utcnow().
Touch(chat, t) == [chat EXCEPT !.updated_at = t]

\* chats.py add_message, line 100: existing_chat["messages"].append(message).
AppendMessage(chat, m) == [chat EXCEPT !.messages = Append(@, m)]

\* chats.py delete_message, lines 132-135: the messages of another id.
RemoveMessage(chat, mid) ==
    [chat EXCEPT !.messages = SelectSeq(@, LAMBDA m : m # mid)]

\* What a handler answers, and the message id of its request if it has one.
MessageResponse(op, code, id, mid) ==
    [op |-> op, code |-> code, chat_id |-> id, message_id |-> mid]

MessageInit ==
    /\ chats = [u \in Users |-> {}]
    /\ nextChatId = 1
    /\ clock = 0
    /\ creq = [p \in Procs |-> IdleReq]
    /\ resp = MessageResponse("none", 0, 0, {})

\* database.py update_chat, lines 284-303, called with the updates for the
\* chat id: None when get_chat finds no chat, else the record with the fields
\* set and the timestamp, written to the file.
UpdateChatRecord(u, id, updates, t) ==
    {Touch(set_chat_fields(c, updates), t) : c \in get_chat(u, id)}

\* POST /chats: chats.py create_chat and database.py create_chat.
MsgCreateChat(u, id, title, scope) ==
    /\ id = nextChatId
    /\ get_chat_count(u) < ApiChatLimit
    /\ \E t \in UtcNow :
          /\ clock' = t
          /\ chats' = [chats EXCEPT ![u] =
                          write_chat(@, CreatedChat(id, u, title, scope, t))]
    /\ nextChatId' = nextChatId + 1
    /\ resp' = MessageResponse("create_chat", 200, id, {})
    /\ UNCHANGED creq
    /\ UNCHANGED docVars
    /\ UNCHANGED userVars
    /\ UNCHANGED queryVars

\* The handler writes the records of update_chat and answers with them, or
\* answers 404 when its get_chat found no chat.
MsgWrite(op, u, id, mid, written, t) ==
    IF written = {}
    THEN /\ resp' = MessageResponse(op, 404, id, mid)
         /\ UNCHANGED <<chats, clock>>
    ELSE /\ clock' = t
         /\ chats' = [chats EXCEPT ![u] =
                         {c \in @ : c.chat_id # id} \cup written]
         /\ resp' = MessageResponse(op, 200, id, mid)

\* PUT /chats/{chat_id}: chats.py update_chat, lines 71-83.
MsgUpdateChat(u, id, updates) ==
    /\ \E t \in UtcNow :
          MsgWrite("update_chat", u, id, {}, UpdateChatRecord(u, id, updates, t), t)
    /\ UNCHANGED <<nextChatId, creq>>
    /\ UNCHANGED docVars
    /\ UNCHANGED userVars
    /\ UNCHANGED queryVars

\* POST /chats/{chat_id}/messages: chats.py add_message, lines 86-104.
MsgAddMessage(u, id, m) ==
    /\ \A c \in get_chat(u, id) : Len(c.messages) < MaxMessageList
    /\ \E t \in UtcNow :
          MsgWrite("add_message", u, id, {m},
                   UNION {UpdateChatRecord(u, id, AsUpdates(AppendMessage(c, m)), t) :
                             c \in get_chat(u, id)}, t)
    /\ UNCHANGED <<nextChatId, creq>>
    /\ UNCHANGED docVars
    /\ UNCHANGED userVars
    /\ UNCHANGED queryVars

\* DELETE /chats/{chat_id}/messages/{message_id}: chats.py delete_message.
MsgDeleteMessage(u, id, mid) ==
    /\ \E t \in UtcNow :
          MsgWrite("delete_message", u, id, {mid},
                   UNION {UpdateChatRecord(u, id, AsUpdates(RemoveMessage(c, mid)), t) :
                             c \in get_chat(u, id)}, t)
    /\ UNCHANGED <<nextChatId, creq>>
    /\ UNCHANGED docVars
    /\ UNCHANGED userVars
    /\ UNCHANGED queryVars

\* The requests on the chats of a user, one after the other.
NextMessages ==
    \/ \E u \in Clients, id \in MessageChatIds, title \in Titles, scope \in Scopes :
          MsgCreateChat(u, id, title, scope)
    \/ \E u \in Clients, id \in MessageChatIds, updates \in ChatUpdates :
          MsgUpdateChat(u, id, updates)
    \/ \E u \in Clients, id \in MessageChatIds, m \in MessageIds :
          MsgAddMessage(u, id, m)
    \/ \E u \in Clients, id \in MessageChatIds, mid \in MessageIds :
          MsgDeleteMessage(u, id, mid)

InitMessages == MessageInit /\ DocInit /\ QueryInit

(***************************************************************************)
(* Document records that json.load rejects. docs[u] holds the content of   *)
(* each file db/documents/<u>/<doc_id>.json, parsable or not; a file stops *)
(* being parsable when the json.dump of a save_document is cut short. Each *)
(* request, and the background task, is served to its end before the next. *)
(***************************************************************************)
RecordDocIds == {"d1", "d2"}       \* the values uuid4() takes for the uploads

\* A file cut short: json.load raises JSONDecodeError.
UnreadableDocument(d) ==
    [doc_id |-> d, parsable |-> FALSE, status |-> "", tags |-> {}]

\* upload_document, lines 143-152: doc_metadata.
NewDocument(d, tags) ==
    [doc_id |-> d, parsable |-> TRUE, status |-> "processing", tags |-> tags]

\* A get_document that returns whatever the file holds.
get_document_json_Unchecked(u, d) == get_document(u, d)

\* JSONDatabase.get_document, lines 106-118: None when the file is not there
\* or json.load raises JSONDecodeError, else the record.
get_document_json(u, d) == {r \in get_document(u, d) : r.parsable}

\* JSONDatabase.get_documents_for_user, lines 90-100: the files that parse.
get_documents_for_user(u) == {r \in docs[u] : r.parsable}

\* list_documents, lines 179-180: the documents that carry the tag, if given.
WithTag(documents, tag) ==
    IF tag = {} THEN documents ELSE {r \in documents : tag \subseteq r.tags}

\* save_document, lines 128-129: the record, or a file cut short when
\* json.dump does not complete.
SavedDocument(rec, written) ==
    IF written THEN rec ELSE UnreadableDocument(rec.doc_id)

\* What a handler answers: the code and the records of the body.
RecordResponse(op, code, d, records) ==
    [op |-> op, code |-> code, doc_id |-> d, records |-> records]

RecordInit ==
    /\ docs = [u \in Users |-> {}]
    /\ vectors = [u \in Users |-> {}]
    /\ task = [d \in RecordDocIds |-> "none"]
    /\ dreq = [p \in Procs |-> IdleDocReq]
    /\ dresp = RecordResponse("none", 0, "none", {})
    /\ deleted = {}
    /\ users = RegisteredUsers
    /\ uresp = [code |-> 0, username |-> "none", email |-> {}]

\* POST /documents/upload, lines 143-167: save the record and schedule the
\* task; a save_document that raises is answered 500, without the task.
RecUpload(u, d, tags, written) ==
    /\ task[d] = "none"
    /\ docs' = [docs EXCEPT ![u] =
                   save_document(@, SavedDocument(NewDocument(d, tags), written))]
    /\ task' = [task EXCEPT ![d] = IF written THEN "scheduled" ELSE "never"]
    /\ dresp' = RecordResponse("upload", IF written THEN 200 ELSE 500, d, {})
    /\ UNCHANGED <<vectors, dreq, deleted>>
    /\ UNCHANGED chatVars
    /\ UNCHANGED userVars
    /\ UNCHANGED queryVars

\* process_document, lines 47-98: return when get_document gives None; else
\* the chunks are added and the status is saved, processed or error. When a
\* save is cut short, the update of the except branch finds no record.
RecIngest(u, d, ok, written) ==
    /\ task[d] = "scheduled"
    /\ task' = [task EXCEPT ![d] = "done"]
    /\ IF get_document_json(u, d) = {}
       THEN UNCHANGED <<docs, vectors>>
       ELSE /\ \E r \in get_document_json(u, d) :
                  docs' = [docs EXCEPT ![u] =
                              save_document(@, SavedDocument(
                                 [r EXCEPT !.status = IF ok THEN "processed"
                                                      ELSE "error"], written))]
            /\ vectors' = [vectors EXCEPT ![u] =
                              IF ok THEN add_chunk(@, d, 0) ELSE @]
    /\ UNCHANGED <<dreq, dresp, deleted>>
    /\ UNCHANGED chatVars
    /\ UNCHANGED userVars
    /\ UNCHANGED queryVars

\* GET /documents/{doc_id}: documents.py get_document, lines 185-198.
RecGet(u, d) ==
    /\ dresp' = RecordResponse("get", IF get_document_json(u, d) = {} THEN 404 ELSE 200,
                               d, get_document_json(u, d))
    /\ UNCHANGED <<docs, vectors, task, dreq, deleted>>
    /\ UNCHANGED chatVars
    /\ UNCHANGED userVars
    /\ UNCHANGED queryVars

\* GET /documents: documents.py list_documents, lines 170-182.
RecList(u, tag) ==
    /\ dresp' = RecordResponse("list", 200, "none",
                               WithTag(get_documents_for_user(u), tag))
    /\ UNCHANGED <<docs, vectors, task, dreq, deleted>>
    /\ UNCHANGED chatVars
    /\ UNCHANGED userVars
    /\ UNCHANGED queryVars

\* PUT /documents/{doc_id}: documents.py update_document, lines 201-219, with
\* db.update_document; a save that raises is answered 500.
RecUpdateTags(u, d, tags, written) ==
    /\ IF get_document_json(u, d) = {}
       THEN /\ dresp' = RecordResponse("update", 404, d, {})
            /\ UNCHANGED docs
       ELSE \E r \in get_document_json(u, d) :
               LET doc == [r EXCEPT !.tags = tags] IN
               /\ docs' = [docs EXCEPT ![u] =
                              save_document(@, SavedDocument(doc, written))]
               /\ dresp' = IF written THEN RecordResponse("update", 200, d, {doc})
                           ELSE RecordResponse("update", 500, d, {})
    /\ UNCHANGED <<vectors, task, dreq, deleted>>
    /\ UNCHANGED chatVars
    /\ UNCHANGED userVars
    /\ UNCHANGED queryVars

\* DELETE /documents/{doc_id}: documents.py delete_document, lines 222-249.
RecDelete(u, d) ==
    /\ IF get_document_json(u, d) = {}
       THEN /\ dresp' = RecordResponse("delete", 404, d, {})
            /\ UNCHANGED <<docs, vectors, deleted>>
       ELSE /\ docs' = [docs EXCEPT ![u] = remove_document(@, d)]
            /\ vectors' = [vectors EXCEPT ![u] = delete_document_chunks(@, d)]
            /\ deleted' = deleted \cup {d}
            /\ dresp' = RecordResponse("delete", 200, d, {})
    /\ UNCHANGED <<task, dreq>>
    /\ UNCHANGED chatVars
    /\ UNCHANGED userVars
    /\ UNCHANGED queryVars

NextRecords ==
    \/ \E u \in Clients, d \in RecordDocIds, tags \in TagSets, written \in BOOLEAN :
          RecUpload(u, d, tags, written)
    \/ \E u \in Clients, d \in RecordDocIds, ok \in BOOLEAN, written \in BOOLEAN :
          RecIngest(u, d, ok, written)
    \/ \E u \in Clients, d \in RecordDocIds : RecGet(u, d)
    \/ \E u \in Clients, tag \in TagSets : RecList(u, tag)
    \/ \E u \in Clients, d \in RecordDocIds, tags \in TagSets, written \in BOOLEAN :
          RecUpdateTags(u, d, tags, written)
    \/ \E u \in Clients, d \in RecordDocIds : RecDelete(u, d)

InitRecords == ChatInit /\ RecordInit /\ QueryInit

(***************************************************************************)
(* The query engine step by step: QueryEngine.query embeds the question,   *)
(* searches the collection and asks the model, and each of the three calls *)
(* may raise. creq[p] holds the locals of the query the worker p serves.   *)
(***************************************************************************)
\* The locals of process_query and QueryEngine.query; calls lists the calls
\* of the try body made so far.
IdleEngine ==
    [pc |-> "idle", user |-> "alice", document_ids |-> {}, max_results |-> 0,
     query_embedding |-> {}, search_results |-> {}, calls |-> <<>>]

\* What process_query answers: the QueryResponse of lines 113-118, or the
\* HTTPException of line 121 with its detail.
EngineResponse(code, answer, sources, conf, detail) ==
    [code |-> code, answer |-> answer, sources |-> sources, confidence |-> conf,
     detail |-> detail]

\* The messages of the exceptions the three calls raise.
EngineCause(step) ==
    CASE step = "embed" -> "Error generating embedding"
      [] step = "search" -> "Error searching vector store"
      [] step = "generate" -> "llm"

\* An engine that answers a failed call as a success, with no sources and
\* the default confidence.
EngineFailure_Partial(step, l) ==
    EngineResponse(200, {}, <<>>, {DefaultConfidence}, "")

\* query_engine.py lines 171-172 and queries.py lines 120-121: the exception
\* of the call is wrapped twice and answered 500.
EngineFailure(step, l) ==
    EngineResponse(500, {}, <<>>, {},
                   "Query error: " \o ("Error processing query: " \o EngineCause(step)))

\* query_engine.py lines 104-169: the sources and the confidence of the
\* search results, the one pair of the chunks found and their distances,
\* returned with the answer.
EngineResult(l, answer) ==
    LET sr == CHOOSE x \in l.search_results : TRUE
        sources == Sources(sr[1], sr[2])
    IN EngineResponse(200, {answer}, sources,
                      {Confidence([i \in DOMAIN sources |-> sources[i].relevance_score])},
                      "")

EngineInit ==
    /\ chats = [u \in Users |-> {}]
    /\ nextChatId = 1
    /\ clock = 0
    /\ creq = [p \in QueryProcs |-> IdleEngine]
    /\ resp = Response("none", 0, {}, {})
    /\ qresp = EngineResponse(0, {}, <<>>, {}, "")
    /\ distances = <<>>
    /\ confidence = DefaultConfidence

\* process_query, lines 52-55 and 106-111, of a request without
\* filter_criteria: the call of query_engine.query.
EngineStart(p, u, filter_doc_ids, k) ==
    /\ creq[p].pc = "idle"
    /\ creq' = [creq EXCEPT ![p] =
                   [IdleEngine EXCEPT !.pc = "embed", !.user = u,
                                      !.document_ids = filter_doc_ids,
                                      !.max_results = EffectiveMaxResults(k)]]
    /\ UNCHANGED <<chats, nextChatId, clock, resp>>
    /\ UNCHANGED docVars
    /\ UNCHANGED userVars
    /\ UNCHANGED queryVars

\* A call of the try body raises: the query answers and ends.
EngineRaise(p, step) ==
    /\ qresp' = EngineFailure(step, creq[p])
    /\ creq' = [creq EXCEPT ![p] = IdleEngine]

\* query, line 85: embedding_manager.get_embedding(query).
EngineEmbed(p, ok) ==
    /\ creq[p].pc = "embed"
    /\ IF ok
       THEN /\ creq' = [creq EXCEPT ![p].pc = "search",
                                    ![p].query_embedding = {"embedding"},
                                    ![p].calls = Append(@, "embed")]
            /\ UNCHANGED qresp
       ELSE EngineRaise(p, "embed")
    /\ UNCHANGED <<chats, nextChatId, clock, resp, distances, confidence>>
    /\ UNCHANGED docVars
    /\ UNCHANGED userVars

\* query, lines 88-93: document_store.search_chunks.
EngineSearch(p, ok, dist) ==
    /\ creq[p].pc = "search"
    /\ IF ok
       THEN /\ \E results \in search_chunks(creq[p].user, creq[p].document_ids,
                                            creq[p].max_results, dist) :
                  creq' = [creq EXCEPT ![p].pc = "generate",
                                       ![p].search_results = {<<results, dist>>},
                                       ![p].calls = Append(@, "search")]
            /\ UNCHANGED qresp
       ELSE EngineRaise(p, "search")
    /\ UNCHANGED <<chats, nextChatId, clock, resp, distances, confidence>>
    /\ UNCHANGED docVars
    /\ UNCHANGED userVars

\* query, lines 96-169: the context, chain.invoke, then the result.
EngineGenerate(p, ok) ==
    /\ creq[p].pc = "generate"
    /\ IF ok
       THEN /\ qresp' = EngineResult(creq[p], "answer")
            /\ creq' = [creq EXCEPT ![p] = IdleEngine]
       ELSE EngineRaise(p, "generate")
    /\ UNCHANGED <<chats, nextChatId, clock, resp, distances, confidence>>
    /\ UNCHANGED docVars
    /\ UNCHANGED userVars

\* Chunks come and go in the collections while the queries are served.
NextEngine ==
    \/ \E u \in Users, d \in AllDocIds, i \in 0..(MaxChunks - 1) :
          d \in AddedUnder(u) /\ i \in ChunkIndexes(u) /\ StoreAddChunk(u, d, i)
    \/ \E u \in Users, d \in AllDocIds : StoreDeleteChunks(u, d)
    \/ \E p \in QueryProcs, u \in Clients, filter_doc_ids \in DocFilters,
          k \in 0..MaxResults : EngineStart(p, u, filter_doc_ids, k)
    \/ \E p \in QueryProcs, ok \in BOOLEAN : EngineEmbed(p, ok)
    \/ \E p \in QueryProcs, ok \in BOOLEAN :
          \E dist \in [search_candidates(creq[p].user, creq[p].document_ids)
                          -> 0..MaxDistance] : EngineSearch(p, ok, dist)
    \/ \E p \in QueryProcs, ok \in BOOLEAN : EngineGenerate(p, ok)

InitEngine == EngineInit /\ DocInit

(***************************************************************************)
(* The chunks of a CSV file: DocumentProcessor._process_csv as a function  *)
(* of the number of data rows, applied by the task that processes the      *)
(* file.                                                                   *)
(***************************************************************************)
CsvChunkSize == 50   \* document_processor.py: "chunk_size = 50"

\* _process_csv, lines 182-190: the summary chunk and its metadata.
CsvSummary(n) == [content_type |-> "csv_summary", first |-> 0, last |-> 0, rows |-> n]

\* A batch that ends a full chunk_size after its start, whatever the rows.
CsvChunkEnd_Unclamped(chunk_start, n) == chunk_start + CsvChunkSize

\* _process_csv, line 195: chunk_end = min(chunk_start + chunk_size, len(data_rows)).
CsvChunkEnd(chunk_start, n) == Min({chunk_start + CsvChunkSize, n})

\* _process_csv, lines 196-221: the chunk of data_rows[chunk_start:chunk_end],
\* its row_range "<chunk_start+1>-<chunk_end>" and its total_rows.
CsvBatch(chunk_start, n) ==
    [content_type |-> "csv_data", first |-> chunk_start + 1,
     last |-> CsvChunkEnd(chunk_start, n), rows |-> n]

\* _process_csv, line 194: for chunk_start in range(0, len(data_rows), chunk_size).
RECURSIVE CsvBatches(_, _)
CsvBatches(chunk_start, n) ==
    IF chunk_start >= n THEN <<>>
    ELSE <<CsvBatch(chunk_start, n)>> \o CsvBatches(chunk_start + CsvChunkSize, n)

\* _process_csv for a file of n data rows: the summary, then the batches.
process_csv(n) == <<CsvSummary(n)>> \o CsvBatches(0, n)

\* The task of a CSV upload about to call process_file, and after the call.
CsvTask(pc, n, chunks) == [pc |-> pc, data_rows |-> n, chunks |-> chunks]

CsvInit ==
    /\ docs = [u \in Users |-> {}]
    /\ vectors = [u \in Users |-> {}]
    /\ task \in [DocIds -> {CsvTask("extract", n, <<>>) : n \in 0..MaxRows}]
    /\ dreq = [p \in Procs |-> IdleDocReq]
    /\ dresp = DocResponse("none", 0, "none")
    /\ deleted = {}
    /\ users = RegisteredUsers
    /\ uresp = [code |-> 0, username |-> "none", email |-> {}]

\* process_document, line 57: document_chunks = process_file(file_path, "csv").
CsvProcessFile(d) ==
    /\ task[d].pc = "extract"
    /\ task' = [task EXCEPT ![d] =
                   CsvTask("embed", task[d].data_rows, process_csv(task[d].data_rows))]
    /\ UNCHANGED <<docs, vectors, dreq, dresp, deleted>>
    /\ UNCHANGED chatVars
    /\ UNCHANGED userVars
    /\ UNCHANGED queryVars

NextCsv == \E d \in DocIds : CsvProcessFile(d)

InitCsv == ChatInit /\ CsvInit /\ QueryInit

(***************************************************************************)
(* Reads beside the writes of one handler: one worker creates a chat and   *)
(* appends to it, the other serves GET /chats/{chat_id} and GET /chats.    *)
(* Every json.dump completes.                                              *)
(***************************************************************************)
Writer == "p1"
Reader == "p2"

NextReads ==
    \/ \E u \in Clients : FileCreateChat(Writer, u)
    \/ \E u \in Clients, id \in KnownChatIds : FileAddMessage(Writer, u, id)
    \/ \E u \in Clients, id \in KnownChatIds : FileGetChat(Reader, u, id)
    \/ \E u \in Clients : FileListChats(Reader, u)
    \/ \E p \in Procs : FileRead(p)
    \/ \E p \in Procs : FileRepairOpen(p)
    \/ \E p \in Procs : FileRepairDump(p)
    \/ \E p \in Procs : FileReread(p)
    \/ \E p \in Procs : FileUpdateOpen(p)
    \/ \E p \in Procs : FileDump(p, TRUE)

(***************************************************************************)
(* Queries with filter_criteria: process_query turns the criteria into the *)
(* list of the ids of the user's documents that satisfy them and searches  *)
(* with that list. docs[u] holds the tags and the file type of a document. *)
(***************************************************************************)
FileTypes == {"pdf", "csv"}        \* the file types of the uploads

\* The filter_criteria of a request: for each key, the value if it is given.
\* A dict without keys is false in "if not document_ids and filter_criteria".
NoCriteria == [tags |-> {}, file_type |-> {}]
FilterCriteria ==
    {[tags |-> t, file_type |-> f] :
        t \in {{}} \cup {{x} : x \in TagSets},
        f \in {{}} \cup {{x} : x \in FileTypes}}

\* upload_document, lines 143-152, for a document that has been ingested.
FilterDocument(d, tags, file_type) ==
    [doc_id |-> d, tags |-> tags, file_type |-> file_type]

\* process_query, lines 60-100: the documents that pass every filter given.
FilteredDocs(u, criteria) ==
    {doc \in docs[u] :
        /\ \A required_tags \in criteria.tags : required_tags \subseteq doc.tags
        /\ \A file_type \in criteria.file_type : doc.file_type = file_type}

\* process_query, lines 55-103: the document_ids handed to the query engine.
FilterDocumentIds(u, document_ids, criteria) ==
    IF document_ids = {} /\ criteria # NoCriteria
    THEN {doc.doc_id : doc \in FilteredDocs(u, criteria)}
    ELSE document_ids

\* What process_query answers, beside the request it answers.
FilterResponse(code, u, document_ids, criteria, sources) ==
    [code |-> code, user |-> u, document_ids |-> document_ids,
     criteria |-> criteria, sources |-> sources]

FilterInit ==
    /\ docs = [u \in Users |-> {}]
    /\ vectors = [u \in Users |-> {}]
    /\ task = [d \in DocIds |-> NoTask]
    /\ dreq = [p \in Procs |-> IdleDocReq]
    /\ dresp = DocResponse("none", 0, "none")
    /\ deleted = {}
    /\ users = RegisteredUsers
    /\ uresp = [code |-> 0, username |-> "none", email |-> {}]
    /\ qresp = FilterResponse(0, "none", {}, NoCriteria, <<>>)
    /\ distances = <<>>
    /\ confidence = DefaultConfidence

\* An upload and its ingestion, complete: the record and one chunk.
FilterIngested(u, d, tags, file_type) ==
    /\ get_document(u, d) = {}
    /\ docs' = [docs EXCEPT ![u] = save_document(@, FilterDocument(d, tags, file_type))]
    /\ vectors' = [vectors EXCEPT ![u] = add_chunk(@, d, 0)]
    /\ UNCHANGED <<task, dreq, dresp, deleted>>
    /\ UNCHANGED chatVars
    /\ UNCHANGED userVars
    /\ UNCHANGED queryVars

\* POST /queries: process_query, lines 50-121, with QueryEngine.query.
FilterQuery(u, document_ids, criteria, max_results, dist, ok) ==
    /\ IF ok
       THEN \E results \in search_chunks(u, FilterDocumentIds(u, document_ids, criteria),
                                         max_results, dist) :
               qresp' = FilterResponse(200, u, document_ids, criteria,
                                       Sources(results, dist))
       ELSE qresp' = FilterResponse(500, u, document_ids, criteria, <<>>)
    /\ UNCHANGED <<distances, confidence>>
    /\ UNCHANGED chatVars
    /\ UNCHANGED userVars
    /\ UNCHANGED docVars

NextFilter ==
    \/ \E u \in Clients, d \in RecordDocIds, tags \in TagSets, file_type \in FileTypes :
          FilterIngested(u, d, tags, file_type)
    \/ \E u \in Clients, document_ids \in {{}} \cup {{d} : d \in RecordDocIds},
          criteria \in FilterCriteria, k \in 0..MaxResults, ok \in BOOLEAN :
          \E dist \in [search_candidates(u, FilterDocumentIds(u, document_ids, criteria))
                          -> 0..MaxDistance] :
             FilterQuery(u, document_ids, criteria, EffectiveMaxResults(k), dist, ok)

InitFilter == ChatInit /\ FilterInit

(***************************************************************************)
(* Users: the registrations. users is the list of db/users.json, each      *)
(* record with its username and its email, a set of at most one address    *)
(* (a user registered without email is stored with email null).            *)
(***************************************************************************)
Usernames == {"alice", "bob", "carol"}   \* the usernames a request may carry
Emails == {"a@x", "b@x"}                  \* the addresses a request may carry

\* register, lines 90-92: user_in.dict() of a UserCreate.
UserData(username, email) == [username |-> username, email |-> email]

UserResponse(code, username, email) ==
    [code |-> code, username |-> username, email |-> email]

\* get_user_by_username, lines 42-46.
get_user_by_username(username) ==
    {users[i] : i \in {i \in DOMAIN users : users[i].username = username}}

\* get_user_by_email, lines 50-54: user.get("email") == email.
get_user_by_email(email) ==
    {users[i] : i \in {i \in DOMAIN users : users[i].email = email}}

\* create_user, lines 61-65: the check of the username and of the email,
\* user.get("email") == user_data.get("email"), against every stored user.
CreateUserRaises(user_data) ==
    \E i \in DOMAIN users :
       \/ users[i].username = user_data.username
       \/ users[i].email = user_data.email

\* create_user, lines 58-81: ValueError and the list as it was, or the user
\* appended to the list and written.
create_user(user_data) ==
    IF CreateUserRaises(user_data) THEN users ELSE Append(users, user_data)

UserFileInit ==
    /\ users = <<>>
    /\ uresp = UserResponse(0, "none", {})

\* POST /auth/register: register, lines 69-101. The ValueError of create_user
\* is not caught and the application answers 500.
Register(username, email) ==
    /\ IF get_user_by_username(username) # {}
       THEN /\ uresp' = UserResponse(400, username, email)
            /\ UNCHANGED users
       ELSE IF email # {} /\ get_user_by_email(email) # {}
            THEN /\ uresp' = UserResponse(400, username, email)
                 /\ UNCHANGED users
            ELSE /\ users' = create_user(UserData(username, email))
                 /\ uresp' = UserResponse(
                                 IF CreateUserRaises(UserData(username, email))
                                 THEN 500 ELSE 200, username, email)
    /\ UNCHANGED chatVars
    /\ UNCHANGED docVars
    /\ UNCHANGED queryVars

NextUsers ==
    \E username \in Usernames, email \in {{}} \cup {{e} : e \in Emails} :
       Register(username, email)

InitUsers ==
    /\ ChatInit
    /\ docs = [u \in Users |-> {}]
    /\ vectors = [u \in Users |-> {}]
    /\ task = [d \in DocIds |-> NoTask]
    /\ dreq = [p \in Procs |-> IdleDocReq]
    /\ dresp = DocResponse("none", 0, "none")
    /\ deleted = {}
    /\ QueryInit
    /\ UserFileInit

Init == ChatInit /\ DocInit /\ QueryInit
InitConfidence ==
    /\ ChatInit
    /\ DocInit
    /\ qresp = QueryResponse(0, "none", {}, 0, <<>>, DefaultConfidence)
    /\ distances \in DistanceLists
    /\ confidence = NotComputed
InitQuery == ChatInit /\ QueryStoreInit /\ QueryInit

SpecStore == Init /\ [][NextStore]_vars

SpecCreate == Init /\ [][NextCreate]_vars

SpecDoc == Init /\ [][NextDoc]_vars

SpecQuery == InitQuery /\ [][NextQuery]_vars

SpecSearch == Init /\ [][NextSearch]_vars

SpecOwners == InitQuery /\ [][NextOwners]_vars

SpecFiles == InitFiles /\ [][NextFiles]_vars

SpecRepair == InitFiles /\ [][NextRepair]_vars

SpecConfidence == InitConfidence /\ [][NextConfidence]_vars

SpecMessages == InitMessages /\ [][NextMessages]_vars

SpecRecords == InitRecords /\ [][NextRecords]_vars

SpecEngine == InitEngine /\ [][NextEngine]_vars

SpecCsv == InitCsv /\ [][NextCsv]_vars

SpecReads == InitFiles /\ [][NextReads]_vars

SpecFilter == InitFilter /\ [][NextFilter]_vars

SpecUsers == InitUsers /\ [][NextUsers]_vars

\* A background task that can take a step takes it.
FairSpecDoc == SpecDoc /\ \A d \in DocIds : WF_vars(IngestStep(d))

(***************************************************************************)
(* Properties: chats.                                                      *)
(***************************************************************************)

C3_NeverRejected == ~(resp.op = "create_chat" /\ resp.code = 400)

\* C4: however the list, evict and write steps of concurrent create_chat
\* requests of one user interleave, the user never has more than 5 chat
\* records.
C4_HardCapConcurrent == \A u \in Users : get_chat_count(u) <= 5

(***************************************************************************)
(* Properties: documents.                                                  *)
(***************************************************************************)

\* C5: upload_document creates the record with status "processing", and a step
\* changes the status of a record only from "processing" to "processed" or
\* "error".
C5_LinearStatus ==
    [][\A u \in Users, d \in DocIds :
          LET before == {r \in docs[u] : r.doc_id = d}
              after == {r \in docs'[u] : r.doc_id = d}
          IN /\ (task[d].pc = "none" /\ task'[d].pc = "start") =>
                   \A r \in after : r.status = "processing"
             /\ \A r \in before, r2 \in after :
                   r2.status # r.status =>
                      /\ r.status = "processing"
                      /\ r2.status \in {"processed", "error"}]_vars

C7_ProcessedIndexed ==
    \A d \in DocIds :
        \A r \in get_document(task[d].user, d) :
            r.status = "processed" =>
               \A i \in 0..(task[d].n - 1) :
                  [doc_id |-> d, chunk_index |-> i] \in vectors[task[d].user]

C9_DeleteCascade ==
    \A d \in deleted : search_candidates(task[d].user, {d}) = {}

\* C10: when the delete handler answers 200, the record and every chunk of the
\* document are gone.
C10_DeleteComplete ==
    [][\A p \in Procs :
          (dreq[p].pc = "del_file" /\ dreq'[p].pc = "idle") =>
             /\ {r \in docs'[dreq[p].user] : r.doc_id = dreq[p].doc_id} = {}
             /\ {c \in vectors'[dreq[p].user] : c.doc_id = dreq[p].doc_id} = {}]_vars

(***************************************************************************)
(* Properties: queries.                                                    *)
(***************************************************************************)
\* A delete of d has removed the metadata record and has not yet called
\* delete_document_chunks.
MetadataRemoved(d) ==
    \E p \in Procs : /\ dreq[p].pc = "del_chunks"
                     /\ dreq[p].doc_id = d
                     /\ get_document(dreq[p].user, d) = {}

SourcesOf(d, r) == {i \in DOMAIN r.sources : r.sources[i].document_id = d}

\* C11: no query observes a partially deleted document: a query answered
\* after a delete has removed the metadata record of d, and before the delete
\* has ended, returns no source of d.
C11_NoPartialDelete ==
    [][\A d \in DocIds :
          (MetadataRemoved(d) /\ qresp' # qresp) => SourcesOf(d, qresp') = {}]_vars

\* C12: a search under one user never returns a chunk that was added under
\* another user, and the collections of distinct users have distinct names.
C12_NamespaceIsolation ==
    /\ \A a, b \in Users : a # b => CollectionName(a) # CollectionName(b)
    /\ \A o \in Users \ {qresp.user} : \A d \in AddedUnder(o) : SourcesOf(d, qresp) = {}

\* Both users hold chunks, and a search without a document filter was answered.
C12_BothIndexed ==
    /\ \A u \in Users : vectors[u] # {}
    /\ qresp.code = 200 /\ qresp.document_ids = {} /\ qresp.sources # <<>>

\* C14: a query answered with limit k over m candidate chunks, the chunks of
\* the user's collection that pass the document filter, has exactly min(k, m)
\* sources in ascending order of distance; m < k is no failure.
C14_ResultCount ==
    [][(qresp' # qresp /\ qresp'.code = 200) =>
          LET m == Cardinality(search_candidates(qresp'.user, qresp'.document_ids))
              k == qresp'.max_results
              sources == qresp'.sources
          IN /\ Len(sources) = IF k < m THEN k ELSE m
             /\ \A i, j \in DOMAIN sources :
                   i < j => sources[i].relevance_score <= sources[j].relevance_score
             /\ \A i, j \in DOMAIN sources :
                   i # j => <<sources[i].document_id, sources[i].chunk_index>> #
                            <<sources[j].document_id, sources[j].chunk_index>>]_vars

\* A query with limit 5 over a collection of two chunks at different distances
\* was answered with both.
C14_FewerThanLimit ==
    /\ qresp.code = 200
    /\ qresp.max_results = DefaultMaxResults
    /\ Len(qresp.sources) = 2
    /\ qresp.sources[1].relevance_score < qresp.sources[2].relevance_score

(***************************************************************************)
(* Properties: the confidence.                                             *)
(***************************************************************************)
\* C15: the confidence of a non-empty list of distances, whatever their
\* values, lies in [0.01, 1.0], and the confidence of the empty list is 0.5.
C15_ConfidenceBounds ==
    confidence # NotComputed =>
        IF distances = <<>> THEN RatEq(confidence, Rat(1, 2))
        ELSE /\ ~RatLess(confidence, Rat(1, 100))
             /\ ~RatLess(Rat(1, 1), confidence)

\* The confidence of a list with a negative distance and a distance above 1
\* was computed.
C15_OutOfRange ==
    /\ confidence # NotComputed
    /\ \E i, j \in DOMAIN distances : distances[i] < 0 /\ distances[j] > Unit

\* C16: lowering one distance of a non-empty list never lowers the confidence.
C16_Monotone ==
    [][(confidence # NotComputed /\ distances' # distances) =>
          ~RatLess(confidence', confidence)]_vars

\* The reference value of C17: the three largest similarities in descending
\* order, the weights 0.6, 0.3, 0.1 cut to their number and divided by their
\* sum, the weighted sum rescaled piecewise and clamped to [0.01, 1.0].
RefTop(sims) ==
    LET n == IF Len(sims) < 3 THEN Len(sims) ELSE 3
        t == CHOOSE t \in [1..n -> DOMAIN sims] :
                /\ \A i, j \in 1..n : i < j => t[i] # t[j] /\ sims[t[i]] >= sims[t[j]]
                /\ \A k \in DOMAIN sims : \A i \in 1..n :
                      k \notin Range(t) => sims[t[i]] >= sims[k]
    IN [i \in 1..n |-> sims[t[i]]]

RefRaw(ds) ==
    LET top == RefTop(Similarities(ds))
        w == [i \in 1..Len(top) |-> <<6, 3, 1>>[i]]
    IN Rat(Sum([i \in 1..Len(top) |-> w[i] * top[i]]), Sum(w) * SimilarityDen(ds))

RefRescale(raw) ==
    IF 5 * raw.num < raw.den THEN Rat(raw.num, 2 * raw.den)
    ELSE IF 2 * raw.num < raw.den
         THEN Rat(10 * raw.den + 7 * (5 * raw.num - raw.den), 50 * raw.den)
         ELSE Rat(82 * raw.den + 118 * (2 * raw.num - raw.den), 200 * raw.den)

RefConfidence(ds) ==
    LET c == RefRescale(RefRaw(ds))
    IN IF 100 * c.num < c.den THEN Rat(1, 100)
       ELSE IF c.num > c.den THEN Rat(1, 1) ELSE c

C13_OwnerIsolation ==
    [][\A b \in Owners \ Requesters :
          /\ chats'[UserDir(b)] = chats[UserDir(b)]
          /\ docs'[UserDir(b)] = docs[UserDir(b)]]_vars

(***************************************************************************)
(* Properties: the chat files.                                             *)
(***************************************************************************)
\* The placeholder of the chat id: valid, titled "Recovered Chat", no messages.
IsPlaceholder(r, id) ==
    r.chat_id = id /\ r.parsable /\ r.title = "Recovered Chat" /\ r.messages = 0

\* The handler p ends a GET /chats/{chat_id} in this step.
GetReturns(p) ==
    creq[p].ret = "get" /\ creq[p].pc \in {"read", "reread"} /\ creq'[p].pc = "idle"

RepairedGet == resp.op = "get_chat" /\ resp.code = 200 /\ resp.repaired

C20_AtomicWrites ==
    [][\A p \in Procs :
          (creq[p].pc = "read" /\ creq'[p] # creq[p]) =>
             \/ Writers(creq[p].user, creq[p].chat_id) = {}
             \/ \A c \in get_chat(creq[p].user, creq[p].chat_id) : c.parsable]_vars

(***************************************************************************)
(* Properties: the messages and timestamps of a chat.                      *)
(***************************************************************************)
\* C21: across CreateChat, UpdateChat, AppendMessage and DeleteMessage the
\* messages of a chat change only by an AppendMessage adding its message at
\* the end or by a DeleteMessage removing the messages of its id; no other
\* request removes, replaces or reorders messages.
C21_AppendOnly ==
    [][\A u \in Clients : \A c \in chats[u] : \A d \in chats'[u] :
          c.chat_id = d.chat_id =>
             \/ d.messages = c.messages
             \/ /\ resp'.op = "add_message"
                /\ \E m \in resp'.message_id : d.messages = Append(c.messages, m)
             \/ /\ resp'.op = "delete_message"
                /\ \E mid \in resp'.message_id :
                      d.messages = SelectSeq(c.messages, LAMBDA m : m # mid)]_vars

\* C22: every successful UpdateChat, AppendMessage or DeleteMessage sets the
\* chat's updated_at to the time of that mutation; updated_at never decreases
\* and is never earlier than created_at, and these mutations leave created_at
\* as it was.
C22_UpdatedAtRefreshed ==
    /\ [](\A u \in Clients : \A c \in chats[u] : c.updated_at >= c.created_at)
    /\ [][\A u \in Clients : \A c \in chats[u] : \A d \in chats'[u] :
             c.chat_id = d.chat_id =>
                /\ d.updated_at >= c.updated_at
                /\ d.created_at = c.created_at
                /\ (/\ resp'.op \in {"update_chat", "add_message", "delete_message"}
                    /\ resp'.code = 200
                    /\ resp'.chat_id = c.chat_id) => d.updated_at = clock']_vars

\* A DeleteMessage succeeded, later than the creation of its chat, on a chat
\* retitled "b" that still holds a message.
C22_MutatedLater ==
    /\ resp.op = "delete_message" /\ resp.code = 200
    /\ \E c \in chats["alice"] :
          /\ c.chat_id = resp.chat_id
          /\ c.updated_at > c.created_at
          /\ c.updated_at = clock
          /\ c.messages # <<>>
          /\ c.title = "b"

(***************************************************************************)
(* Properties: unreadable document records.                                *)
(***************************************************************************)
\* The file of the document is there and json.load rejects it.
Unreadable(u, d) == \E r \in get_document(u, d) : ~r.parsable

\* C23: GetDocument, UpdateDocumentTags and DeleteDocument on a document whose
\* record does not parse answer not found, ListDocuments omits the record,
\* and none of them changes the stored records or the chunks.
C23_UnreadableNotFound ==
    [][\A u \in Clients :
          /\ \A d \in RecordDocIds :
                (/\ Unreadable(u, d)
                 /\ \/ RecGet(u, d)
                    \/ RecDelete(u, d)
                    \/ \E tags \in TagSets, written \in BOOLEAN :
                          RecUpdateTags(u, d, tags, written)) =>
                   /\ dresp'.code = 404
                   /\ dresp'.records = {}
                   /\ docs' = docs /\ vectors' = vectors
          /\ (\E tag \in TagSets : RecList(u, tag)) =>
                /\ dresp'.code = 200
                /\ \A r \in dresp'.records : r.parsable /\ r \in docs[u]
                /\ docs' = docs /\ vectors' = vectors]_vars

\* A tag update of an unreadable record was answered 404 while the user's
\* other document is readable, and the unreadable record is still there.
C23_UnreadableAsked ==
    /\ dresp.op = "update" /\ dresp.code = 404
    /\ Unreadable("alice", dresp.doc_id)
    /\ get_documents_for_user("alice") # {}

(***************************************************************************)
(* Properties: the failures of a query.                                    *)
(***************************************************************************)
\* The order of the three calls of a query.
EngineRank(pc) ==
    CASE pc = "embed" -> 1 [] pc = "search" -> 2 [] pc = "generate" -> 3
      [] OTHER -> 4

\* C24: a Query whose Embed, Search or Generate fails answers one wrapped
\* error, without answer, sources or confidence; a Query answers a result
\* only when the three calls have succeeded, each made once and never again.
C24_FailuresSurface ==
    [][\A p \in QueryProcs :
          (creq[p].pc # "idle" /\ creq'[p] # creq[p]) =>
             /\ EngineRank(creq'[p].pc) > EngineRank(creq[p].pc)
             /\ creq'[p].pc # "idle" =>
                   /\ qresp' = qresp
                   /\ creq'[p].calls = Append(creq[p].calls, creq[p].pc)
             /\ creq'[p].pc = "idle" =>
                   /\ qresp'.code \in {200, 500}
                   /\ qresp'.code = 500 =>
                         /\ qresp'.answer = {} /\ qresp'.sources = <<>>
                         /\ qresp'.confidence = {}
                         /\ qresp'.detail = "Query error: Error processing query: "
                                               \o EngineCause(creq[p].pc)
                   /\ qresp'.code = 200 =>
                         /\ creq[p].calls = <<"embed", "search">>
                         /\ creq[p].pc = "generate"
                         /\ creq[p].query_embedding # {}
                         /\ creq[p].search_results # {}
                         /\ qresp'.answer # {} /\ qresp'.confidence # {}]_vars

\* A query failed at Generate while the collection of the user held a chunk.
C24_GenerateFailed ==
    /\ qresp.code = 500
    /\ qresp.detail = "Query error: Error processing query: llm"
    /\ vectors["alice"] # {}

(***************************************************************************)
(* Properties: the order of the chunks of an ingestion.                    *)
(***************************************************************************)
\* The indices of the chunks of d present in the collection of its owner.
PresentChunks(d) ==
    {c.chunk_index : c \in {c \in vectors[task[d].user] : c.doc_id = d}}

\* C25: at every point of the ingestion of a document the chunks of the
\* document present in the collection are a prefix 0..j-1 of its chunks;
\* chunk i is added after chunk i-1, and after its own embedding.
C25_ChunksInOrder ==
    /\ [](\A d \in DocIds : \E j \in 0..MaxChunks : PresentChunks(d) = 0..(j - 1))
    /\ [][\A d \in DocIds :
             \A i \in PresentChunks(d)' \ PresentChunks(d) :
                /\ task[d].pc = "add" /\ task[d].i = i
                /\ i = 0 \/ (i - 1) \in PresentChunks(d)]_vars

(***************************************************************************)
(* Properties: the chunks of a CSV file.                                   *)
(***************************************************************************)
\* C26: a CSV of n data rows gives one summary chunk followed by ceil(n/50)
\* row batches, whose ranges 1-50, 51-100, ... are consecutive and partition
\* the rows 1..n, each batch of 50 rows except possibly the last.
C26_CsvBatches ==
    \A d \in DocIds :
       task[d].pc = "embed" =>
          LET n == task[d].data_rows
              chunks == task[d].chunks
              batches == SubSeq(chunks, 2, Len(chunks))
          IN /\ Len(chunks) = 1 + ((n + 49) \div 50)
             /\ chunks[1].content_type = "csv_summary" /\ chunks[1].rows = n
             /\ \A k \in DOMAIN batches :
                   /\ batches[k].content_type = "csv_data"
                   /\ batches[k].first = 50 * (k - 1) + 1
                   /\ batches[k].last >= batches[k].first
                   /\ k < Len(batches) => batches[k].last = 50 * k
                   /\ k = Len(batches) => batches[k].last = n
             /\ \A row \in 1..n :
                   Cardinality({k \in DOMAIN batches :
                                   batches[k].first <= row /\ row <= batches[k].last}) = 1

\* A file of 120 data rows has been chunked: batches of 50, 50 and 20 rows.
C26_Rows120 ==
    \E d \in DocIds :
       /\ task[d].pc = "embed" /\ task[d].data_rows = 120
       /\ [k \in 2..Len(task[d].chunks) |->
              task[d].chunks[k].last - task[d].chunks[k].first + 1]
             = [k \in 2..4 |-> IF k < 4 THEN 50 ELSE 20]

(***************************************************************************)
(* Properties: reads beside writes.                                        *)
(***************************************************************************)
\* C27: whatever the interleaving of GetChat and ListChats with the writes
\* of a chat, once every request has finished the file of the chat holds a
\* record that a writer wrote: it parses and is not the placeholder
\* "Recovered Chat" of a repair.
C27_ReadsKeepChat ==
    (\A p \in Procs : creq[p].pc = "idle") =>
       \A u \in Clients : \A c \in chats[u] :
          c.parsable /\ ~IsPlaceholder(c, c.chat_id)

(***************************************************************************)
(* Properties: a deleted document.                                         *)
(***************************************************************************)
\* C28: once DeleteDocument has removed the metadata record of a document,
\* no later step of the ingestion task or of a tag update that began before
\* the delete writes a record of that document id again. An uploaded
\* document without a record is one whose record a delete has removed.
C28_StaysDeleted ==
    [][\A u \in Clients : \A d \in DocIds :
          (task[d].pc # "none" /\ task[d].user = u /\ get_document(u, d) = {}) =>
             {r \in docs'[u] : r.doc_id = d} = {}]_vars

(***************************************************************************)
(* Properties: queries with filter criteria.                               *)
(***************************************************************************)
\* C29: a query without document_ids and with filter_criteria returns only
\* sources of documents of the user that satisfy every criterion given, and
\* no source when no document satisfies them.
C29_CriteriaRestrict ==
    [][(/\ qresp' # qresp
        /\ qresp'.code = 200
        /\ qresp'.document_ids = {}
        /\ qresp'.criteria # NoCriteria) =>
          \A i \in DOMAIN qresp'.sources :
             \E doc \in FilteredDocs(qresp'.user, qresp'.criteria) :
                doc.doc_id = qresp'.sources[i].document_id]_vars

(***************************************************************************)
(* Properties: the registrations.                                          *)
(***************************************************************************)
\* C30: a registration fails, and leaves the list of users as it was, exactly
\* when a stored user has its username or when it carries an email that a
\* stored user has; otherwise, with or without email, it succeeds and adds
\* exactly its user, so that the usernames of the list stay distinct.
C30_CreateUserConflicts ==
    /\ [](\A i, j \in DOMAIN users : users[i].username = users[j].username => i = j)
    /\ [][uresp' # uresp \/ users' # users =>
             LET conflict ==
                    \E i \in DOMAIN users :
                       \/ users[i].username = uresp'.username
                       \/ uresp'.email # {} /\ users[i].email = uresp'.email
             IN IF conflict
                THEN uresp'.code # 200 /\ users' = users
                ELSE /\ uresp'.code = 200
                     /\ users' = Append(users, UserData(uresp'.username,
                                                        uresp'.email))]_vars

====
